---- MODULE Spec2Model ----
(***************************************************************************)
(* Prescription analysis and provenance pipeline of MedAI:                 *)
(*   - the analysis orchestrator (server actions, lib/actions.ts with the  *)
(*     Neo4j history: src/lib/blockchain.ts lines 93-297),                 *)
(*   - the ledger stub (lib/blockchain.ts: src/unnamed/part_001),          *)
(*   - the graph persistence adapter (lib/neo4j.ts: src/unnamed/part_002). *)
(* Server actions run on one JavaScript event loop: a handler runs from    *)
(* one await to the next without interleaving, so every action below is    *)
(* one such run-to-completion segment.  Time is counted in units of 500 ms *)
(* (the greatest common divisor of the setTimeout delays of the ledger).   *)
(***************************************************************************)
EXTENDS Integers, Sequences, FiniteSets, TLC

\* ---------------------------------------------------------------- bounds
MaxOps == 3
MaxTime == 5

\* ------------------------------------------------------ program constants
\* setTimeout(..., 1000) of storeOnBlockchain, in 500 ms units
StoreDelay == 2
\* setTimeout(..., 1500) of updateOnBlockchain, in 500 ms units
UpdateDelay == 3

Procs == {1, 2}
Rands == {0, 1}

\* Form inputs the presentation layer submits (name, age, gender, prescription).
Forms ==
  { [name |-> "A", age |-> 40, gender |-> "f", prescription |-> "Lisinopril 10mg"],
    [name |-> "B", age |-> 40, gender |-> "f", prescription |-> "Metformin 500mg"] }

NoForm == [name |-> "", age |-> 0, gender |-> "", prescription |-> ""]

\* ------------------------------------------------------------ JS objects
\* Object spread {...a, ...b}: the keys of b override those of a.
Spread(a, b) == b @@ a

\* An object with insertion-ordered own keys is a sequence of <<key, value>>
\* entries.  Integer-like keys (canonical array indices) come first in
\* ascending order, all other keys in insertion order (OrdinaryOwnPropertyKeys).
Keys(m) == {m[i].k : i \in DOMAIN m}

Has(m, key) == \E i \in DOMAIN m : m[i].k = key

Get(m, key) == m[CHOOSE i \in DOMAIN m : m[i].k = key].v

Values(m) == [i \in DOMAIN m |-> m[i].v]

\* A hash key of 8 hexadecimal digits is an array index when it reads as a
\* canonical decimal number: decimal digits only and no leading zero.
IsArrayIndex(key) ==
  /\ Len(key) > 0
  /\ \A i \in DOMAIN key : key[i] \in 0..9
  /\ key[1] # 0

RECURSIVE DecValue(_)
DecValue(key) ==
  IF key = <<>> THEN 0
  ELSE 10 * DecValue(SubSeq(key, 1, Len(key) - 1)) + key[Len(key)]

\* An assignment that drops every other key of the object.
PutAlone(m, key, val) == <<[k |-> key, v |-> val]>>

\* m[key] = val for a key that is never integer-like (ids "rx-...").
Put(m, key, val) ==
  IF Has(m, key)
  THEN [i \in DOMAIN m |-> IF m[i].k = key THEN [k |-> key, v |-> val] ELSE m[i]]
  ELSE Append(m, [k |-> key, v |-> val])

\* m[key] = val for a fingerprint key, which may be integer-like.
PutHashKey(m, key, val) ==
  IF Has(m, key) \/ ~IsArrayIndex(key)
  THEN Put(m, key, val)
  ELSE LET before == {i \in DOMAIN m :
                        IsArrayIndex(m[i].k) /\ DecValue(m[i].k) < DecValue(key)}
           n == Cardinality(before)
       IN SubSeq(m, 1, n) \o <<[k |-> key, v |-> val]>> \o SubSeq(m, n + 1, Len(m))

\* --------------------------------------------------------- fingerprint
\* 32-bit words are kept as a pair of 16-bit halves <<hi, lo>>.
Half == 65536

\* hash = (hash << 5) - hash + char; hash = hash & hash
\* i.e. hash * 31 + char truncated to 32 bits.
HashStep(h, c) ==
  LET lo == h[2] * 31 + c
      hi == h[1] * 31 + (lo \div Half)
  IN <<hi % Half, lo % Half>>

RECURSIVE HashFold(_, _)
HashFold(h, str) ==
  IF str = <<>> THEN h ELSE HashFold(HashStep(h, Head(str)), Tail(str))

\* The 32-bit value as it is, without Math.abs.
Abs32Identity(h) == h

\* Math.abs of the signed 32-bit value held in <<hi, lo>>.
Abs32(h) ==
  IF h[1] < 32768 THEN h
  ELSE LET lo == (Half - h[2]) % Half
           hi == (65535 - h[1] + (IF h[2] = 0 THEN 1 ELSE 0)) % Half
       IN <<hi, lo>>

\* The hexadecimal digits of a 16-bit half, most significant first.
Hex4(n) == <<n \div 4096, (n \div 256) % 16, (n \div 16) % 16, n % 16>>

RECURSIVE StripZeros(_)
StripZeros(ds) ==
  IF Len(ds) > 1 /\ Head(ds) = 0 THEN StripZeros(Tail(ds)) ELSE ds

\* Number.prototype.toString(16): no leading zeros.
ToString16(h) == StripZeros(Hex4(h[1]) \o Hex4(h[2]))

RECURSIVE PadStart(_, _)
PadStart(ds, n) == IF Len(ds) >= n THEN ds ELSE PadStart(<<0>> \o ds, n)

\* Character codes standing for the scalar values of a serialized result.
CharOf(x) ==
  CASE x = "valid" -> 118
    [] x = "warning" -> 119
    [] x = "invalid" -> 105
    [] x = "Pending" -> 80
    [] x = "Recorded" -> 82
    [] x = "Updated" -> 85
    [] x = "low" -> 108
    [] x = "medium" -> 109
    [] x = "high" -> 104
    [] x = "Lisinopril 10mg" -> 76
    [] x = "Metformin 500mg" -> 77
    [] OTHER -> 63

\* JSON.stringify(data): one character per scalar field, in key order; the
\* decimal digit of a number of the model is the character 48 + n.
IdChars(id) == IF Len(id) = 3 THEN <<114, 48 + id[2], 48 + id[3]>> ELSE <<114>>

Stringify(data) ==
  IdChars(data.id)
    \o <<CharOf(data.originalPrescription), CharOf(data.status)>>
    \o (IF "issues" \in DOMAIN data
        THEN [i \in DOMAIN data.issues |-> CharOf(data.issues[i])] ELSE <<>>)
    \o (IF "suggestions" \in DOMAIN data
        THEN <<44, 48 + Len(data.suggestions)>> ELSE <<>>)
    \o <<48 + data.timestamp,
         CharOf(data.blockchainStatus), 48 + data.lastUpdated>>

\* The loop and the return of generateHash, for the string str.
HashString(str) == PadStart(ToString16(Abs32(HashFold(<<0, 0>>, str))), 8)



\* ------------------------------------------------------------- AI invoker
DataSources == [vectorDbEntries |-> 2, searchQueries |-> 1]

\* Answers that fail for either prescription: a severity outside the enum, a
\* required field missing, and text JSON.parse throws on.
InvalidAnswers ==
  { [status |-> "warning", issues |-> <<"critical">>, suggestions |-> <<"s">>,
     dataSources |-> DataSources, imageAnalysis |-> "null",
     historyReference |-> "null"],
    [status |-> "valid", issues |-> <<>>,
     dataSources |-> DataSources, imageAnalysis |-> "null",
     historyReference |-> "null"],
    [syntaxError |-> "Unexpected token"] }

\* JSON objects the remote model can answer with (after JSON.parse) for a
\* prescription: a plain valid answer for the first form; for the second a
\* valid answer that also carries keys the schema does not name; for both an
\* answer whose status is outside the enum.
AIResponses(prescription) ==
  { IF prescription = "Lisinopril 10mg"
    THEN [status |-> "valid", issues |-> <<>>, suggestions |-> <<>>,
          dataSources |-> DataSources, imageAnalysis |-> "null",
          historyReference |-> "null"]
    ELSE [status |-> "warning", issues |-> <<"high">>,
          suggestions |-> <<"s", "s">>,
          dataSources |-> DataSources, imageAnalysis |-> "null",
          historyReference |-> "null",
          id |-> <<"rx-injected">>, originalPrescription |-> "injected"],
    [status |-> "unknown", issues |-> <<>>, suggestions |-> <<>>,
     dataSources |-> DataSources, imageAnalysis |-> "null",
     historyReference |-> "null"] }
  \cup InvalidAnswers


SchemaKeys ==
  {"status", "issues", "suggestions", "dataSources", "imageAnalysis",
   "historyReference"}

\* analysisSchema.parse checking only that the fields are there.
SchemaValidFieldsOnly(raw) == SchemaKeys \subseteq DOMAIN raw

\* analysisSchema.parse succeeds
SchemaValid(raw) ==
  /\ SchemaKeys \subseteq DOMAIN raw
  /\ raw.status \in {"valid", "warning", "invalid"}
  /\ \A i \in DOMAIN raw.issues : raw.issues[i] \in {"low", "medium", "high"}

\* The error of the inner catch of analyzePrescriptionWithRAG, whatever was
\* thrown by JSON.parse or by the schema.
AnalyzeError(raw) == "Invalid AI response format"

SchemaParseKeepAll(raw) == raw

\* analysisSchema.parse: a z.object strips the keys it does not name.
SchemaParse(raw) == [key \in SchemaKeys |-> raw[key]]

\* A PrescriptionResult that is assembled as Recorded.
BuildResultRecorded(analysisId, form, analysis, t) ==
  Spread(Spread([id |-> analysisId, originalPrescription |-> form.prescription],
                analysis),
         [timestamp |-> t, blockchainStatus |-> "Recorded", lastUpdated |-> t])

\* The PrescriptionResult assembled by analyzePrescription.
BuildResult(analysisId, form, analysis, t) ==
  Spread(Spread([id |-> analysisId, originalPrescription |-> form.prescription],
                analysis),
         [timestamp |-> t, blockchainStatus |-> "Pending", lastUpdated |-> t])

\* ------------------------------------------------------------------ state
VARIABLES
  now,               \* Date.now(), in 500 ms units
  dbMode,            \* environment: "up", "down" (driver is created, every
                     \* network call fails), "badconfig" (neo4j.driver throws)
  driver,            \* neo4j.ts: let driver
  neo4jInitialized,  \* blockchain.ts: let neo4jInitialized
  initCalls,         \* number of initNeo4j invocations
  heap,              \* the PrescriptionResult objects, shared by reference
  resultsStore,      \* actions.ts: resultsStore (id -> object reference)
  blockchainRecords, \* blockchain.ts: blockchainRecords (id -> record)
  mockGraphData,     \* neo4j.ts: mockGraphData (fingerprint -> entry)
  graph,             \* Prescription nodes of the graph database
  jobs,              \* graph writes started and not awaited
  proc,              \* per request: operation, position and locals
  ret,               \* what the operation that returned in the last step returned
  refreshed,         \* ids whose refresh completed successfully
  started,           \* operations started so far
  submittedFor,      \* <<id, patient name>> of every result put in resultsStore
  overlap,           \* some submit began while another was in progress
  newest,            \* start rank and reference of the stored result whose
                     \* submit was called last
  graphNodes,        \* Patient and Medication nodes of the graph database
  payload,           \* ai.ts: the JSON text the remote model answers with,
                     \* before it wraps it in code fences or not
  hashLog,           \* the invocations of generateHash so far: the serialized
                     \* argument and the fingerprint returned
  input              \* the string handed to a function that is called directly
                     \* (generateHash, analyzePrescriptionWithRAG)

vars ==
  <<now, dbMode, driver, neo4jInitialized, initCalls, heap, resultsStore,
    blockchainRecords, mockGraphData, graph, jobs, proc, ret,
    refreshed, started, submittedFor, overlap, newest, graphNodes, payload, hashLog, input>>

\* A fingerprint that also depends on the number of records in the ledger.
generateHashSalted(data) ==
  HashString(Stringify(data) \o <<48 + Len(blockchainRecords)>>)

\* generateHash: the fingerprint of JSON.stringify(data).
generateHash(data) == HashString(Stringify(data))

NoId == <<>>
UnknownId == <<"rx", 9, 9>>
NeverHash == <<15, 15, 15, 15, 15, 15, 15, 15>>

Idle ==
  [op |-> "none", pc |-> "idle", form |-> NoForm, id |-> NoId, ref |-> 0,
   deadline |-> 0, hash |-> <<>>, hist |-> <<>>, clean |-> TRUE, tag |-> "",
   seq |-> 0, tx |-> <<>>, meds |-> <<>>]

NoRet ==
  [op |-> "none", ok |-> TRUE, err |-> "", val |-> <<>>, form |-> NoForm,
   id |-> NoId, hash |-> <<>>, stage |-> "", tag |-> "", clean |-> TRUE,
   hist |-> <<>>, cause |-> ""]

Init ==
  /\ now = 0
  /\ dbMode \in {"up", "down", "badconfig"}
  /\ driver = "null"
  /\ neo4jInitialized = FALSE
  /\ initCalls = 0
  /\ heap = <<>>
  /\ resultsStore = <<>>
  /\ blockchainRecords = <<>>
  /\ mockGraphData = <<>>
  /\ graph = <<>>
  /\ jobs = <<>>
  /\ proc = [p \in Procs |-> Idle]
  /\ ret = NoRet
  /\ refreshed = {}
  /\ started = 0
  /\ submittedFor = {}
  /\ overlap = FALSE
  /\ newest = [seq |-> -1, ref |-> 0]
  /\ graphNodes = {}
  /\ payload = <<>>
  /\ hashLog = <<>>
  /\ input = <<>>

\* A request takes the lowest free slot (free slots are interchangeable).
CanStart(p) ==
  /\ proc[p].pc = "idle"
  /\ started < MaxOps
  /\ \A q \in Procs : q < p => proc[q].pc # "idle"

InSubmit(p) == proc[p].op = "submit"

\* analysisId without Date.now(): the random part alone.
AnalysisIdRandomOnly(t, r) == <<"rx", 0, r>>

\* `rx-${Date.now()}-${Math.random()...}`; r stands for the millisecond
\* within the 500 ms unit together with the random suffix.
AnalysisId(t, r) == <<"rx", t, r>>

\* The ids generated so far that can still matter: stored ones and those of
\* submits in progress.  Math.random() either repeats a draw made in the same
\* millisecond or gives a new value; draws are numbered as they first appear.
IdsGenerated == Keys(resultsStore) \cup {proc[q].id : q \in {x \in Procs : InSubmit(x)}}

\* An operation returns to its caller.
Finish(p, r) ==
  LET full == Spread(NoRet, r)
  IN /\ proc' = [proc EXCEPT ![p] = Idle]
     /\ ret' = full


\* ---------------------------------------------------------- graph adapter
\* The PrescriptionResult rebuilt from a Prescription node by the two queries.
NodeResult(n) ==
  [id |-> n.id, originalPrescription |-> n.originalPrescription,
   status |-> n.status, issues |-> n.issues, suggestions |-> n.suggestions,
   dataSources |-> [vectorDbEntries |-> 0, searchQueries |-> 0],
   timestamp |-> n.timestamp, blockchainStatus |-> "Recorded",
   lastUpdated |-> n.lastUpdated]

RECURSIVE SelectSeq2(_, _, _)
SelectSeq2(s, name, i) ==
  IF i > Len(s) THEN <<>>
  ELSE (IF s[i].patient.name = name THEN <<s[i]>> ELSE <<>>)
         \o SelectSeq2(s, name, i + 1)

\* ORDER BY rx.timestamp DESC (insertion sort, equal timestamps keep the
\* order of creation).
RECURSIVE InsertDesc(_, _)
InsertDesc(sorted, n) ==
  IF sorted = <<>> THEN <<n>>
  ELSE IF Head(sorted).timestamp < n.timestamp THEN <<n>> \o sorted
  ELSE <<Head(sorted)>> \o InsertDesc(Tail(sorted), n)

RECURSIVE OrderByTimestampDesc(_)
OrderByTimestampDesc(s) ==
  IF s = <<>> THEN <<>>
  ELSE InsertDesc(OrderByTimestampDesc(SubSeq(s, 1, Len(s) - 1)), s[Len(s)])

\* getPatientPrescriptionHistory, connected path: MATCH (p:Patient {name}).
GraphHistory(name) ==
  LET rows == OrderByTimestampDesc(SelectSeq2(graph, name, 1))
  IN [i \in DOMAIN rows |-> NodeResult(rows[i])]

\* getPatientPrescriptionHistory, fallback path:
\* Object.values(mockGraphData).map((data) => data.result)
MockHistory(name) ==
  [i \in DOMAIN mockGraphData |-> heap[mockGraphData[i].v.result]]

\* getPrescriptionByHash, fallback path: mockGraphData[hash]?.result || null
MockByHash(h) ==
  IF Has(mockGraphData, h) THEN <<heap[Get(mockGraphData, h).result]>> ELSE <<>>

\* getPrescriptionByHash, connected path: records[0] of the match, or null.
GraphByHash(h) ==
  LET rows == SelectSeq(graph, LAMBDA n : n.blockchainHash = h)
  IN IF rows = <<>> THEN <<>> ELSE <<NodeResult(rows[1])>>

\* updatePrescriptionInGraph, fallback path.
MockUpdate(m, data, ref, h) ==
  IF Has(m, h) THEN Put(m, h, [Get(m, h) EXCEPT !.result = ref]) ELSE m

\* ------------------------------------------------------------ ledger stub
\* The record storeOnBlockchain writes.
\* result.issues && result.issues.length > 0 ? result.issues : nothing
FieldOrEmpty(data, key) == IF key \in DOMAIN data THEN data[key] ELSE <<>>

\* A count that is 0 whatever the result holds.
LengthAlwaysZero(data, key) == Len(<<>>)

\* data.issues?.length || 0
LengthOrZero(data, key) == IF key \in DOMAIN data THEN Len(data[key]) ELSE 0

\* storeOnBlockchain writing a record without the counts of the result.
LedgerRecordNoCounts(data, h) ==
  [id |-> data.id, timestamp |-> data.timestamp, status |-> data.status,
   hash |-> h,
   data |-> [status |-> data.status, issuesCount |-> 0, suggestionsCount |-> 0]]

LedgerRecord(data, h) ==
  [id |-> data.id, timestamp |-> data.timestamp, status |-> data.status,
   hash |-> h,
   data |-> [status |-> data.status,
             issuesCount |-> LengthOrZero(data, "issues"),
             suggestionsCount |-> LengthOrZero(data, "suggestions")]]

\* updateOnBlockchain keeping the fingerprint the record had.
LedgerUpdateKeepHash(old, data, h, t) ==
  Spread(old,
         [timestamp |-> t, status |-> data.status,
          data |-> [status |-> data.status,
                    issuesCount |-> LengthOrZero(data, "issues"),
                    suggestionsCount |-> LengthOrZero(data, "suggestions")]])

\* The record updateOnBlockchain writes over an existing one.
LedgerUpdate(old, data, h, t) ==
  Spread(old,
         [timestamp |-> t, status |-> data.status, hash |-> h,
          data |-> [status |-> data.status,
                    issuesCount |-> LengthOrZero(data, "issues"),
                    suggestionsCount |-> LengthOrZero(data, "suggestions")]])

\* Object.values(blockchainRecords).find((r) => r.hash === hash)
LedgerHasHash(h) == \E i \in DOMAIN blockchainRecords : blockchainRecords[i].v.hash = h

\* ensureNeo4jInitialized: initNeo4j is called when the flag is not set; it is
\* awaited across a network round trip unless neo4j.driver itself throws.
InitAwaited == ~neo4jInitialized /\ dbMode # "badconfig"

EnsureInit ==
  /\ initCalls' = IF neo4jInitialized THEN initCalls ELSE initCalls + 1
  \* initNeo4j assigns `driver` before verifyConnectivity; its catch does not
  \* reset it.
  /\ driver' = IF InitAwaited THEN "driver" ELSE driver
  /\ neo4jInitialized' = IF InitAwaited THEN neo4jInitialized ELSE TRUE

\* ------------------------------------------------------------- operations
Tick ==
  /\ now < MaxTime
  /\ \E p \in Procs : proc[p].pc = "timer"
  /\ \A p \in Procs : proc[p].pc = "timer" => proc[p].deadline > now
  /\ now' = now + 1
  /\ UNCHANGED <<started, dbMode, driver, neo4jInitialized, initCalls, heap, resultsStore,
                 blockchainRecords, mockGraphData, graph, jobs, proc,  refreshed, submittedFor, overlap, newest, graphNodes, payload, hashLog, input>>
  /\ ret' = NoRet

\* analyzePrescription up to the await of getPatientPrescriptionHistory.
SubmitStart(p, form, r) ==
  /\ CanStart(p)
  /\ started' = started + 1
  /\ r # 0 => AnalysisId(now, 0) \in IdsGenerated
  /\ LET alone == \A q \in Procs : ~InSubmit(q)
         mine == [Idle EXCEPT !.op = "submit", !.form = form,
                              !.id = AnalysisId(now, r), !.clean = alone,
                              !.seq = started,
                              !.pc = IF driver = "null" THEN "ai" ELSE "histq",
                              !.hist = IF driver = "null"
                                       THEN MockHistory(form.name) ELSE <<>>]
     IN proc' = [q \in Procs |->
                   IF q = p THEN mine
                   ELSE IF InSubmit(q) THEN [proc[q] EXCEPT !.clean = FALSE]
                   ELSE proc[q]]
  /\ UNCHANGED <<now, dbMode, driver, neo4jInitialized, initCalls, heap,
                 resultsStore, blockchainRecords, mockGraphData, graph, jobs,  refreshed, submittedFor>>
  /\ overlap' = (overlap \/ \E q \in Procs : InSubmit(q))
  /\ UNCHANGED <<newest, graphNodes, payload, hashLog, input>>
  /\ ret' = NoRet

\* session.run of getPatientPrescriptionHistory settles.
SubmitHistDone(p) ==
  /\ proc[p].op = "submit" /\ proc[p].pc = "histq"
  /\ IF dbMode = "up"
     THEN /\ proc' = [proc EXCEPT ![p].pc = "ai",
                                  ![p].hist = GraphHistory(proc[p].form.name)]
          /\ ret' = NoRet
     ELSE Finish(p, [op |-> "submit", ok |-> FALSE,
                     err |-> "Failed to analyze prescription",
                     stage |-> "history", form |-> proc[p].form,
                     id |-> proc[p].id, clean |-> proc[p].clean])
  /\ UNCHANGED <<started, now, dbMode, driver, neo4jInitialized, initCalls, heap,
                 resultsStore, blockchainRecords, mockGraphData, graph, jobs,
                 refreshed, submittedFor, overlap, newest, graphNodes, payload, hashLog, input>>

\* The remote model answers: parse, validate, assemble the result, store it
\* in resultsStore and enter storeOnBlockchain up to its first real await.
SubmitAI(p, raw) ==
  /\ proc[p].op = "submit" /\ proc[p].pc = "ai"
  /\ IF ~SchemaValid(raw)
     THEN /\ Finish(p, [op |-> "submit", ok |-> FALSE,
                        err |-> "Failed to analyze prescription",
                        stage |-> "ai", form |-> proc[p].form,
                        id |-> proc[p].id, clean |-> proc[p].clean,
                        hist |-> proc[p].hist, val |-> <<raw>>,
                        cause |-> AnalyzeError(raw)])
          /\ UNCHANGED <<heap, resultsStore, driver, neo4jInitialized, initCalls,
                         submittedFor, newest>>
     ELSE /\ newest' = IF proc[p].seq > newest.seq
                       THEN [seq |-> proc[p].seq, ref |-> Len(heap) + 1]
                       ELSE newest
          /\ heap' = Append(heap, BuildResult(proc[p].id, proc[p].form,
                                              SchemaParse(raw), now))
          /\ resultsStore' = Put(resultsStore, proc[p].id, Len(heap) + 1)
          /\ submittedFor' = submittedFor \cup {<<proc[p].id, proc[p].form.name>>}
          /\ EnsureInit
          /\ proc' = [proc EXCEPT ![p].ref = Len(heap) + 1,
                        ![p].pc = IF InitAwaited THEN "init" ELSE "timer",
                        ![p].deadline = IF InitAwaited THEN 0 ELSE now + StoreDelay]
          /\ ret' = NoRet
  /\ UNCHANGED <<started, now, dbMode, blockchainRecords, mockGraphData, graph, jobs,
                 refreshed, overlap, graphNodes, payload, hashLog, input>>

\* getPrescriptionFromHash without the ledger scan: every fingerprint is
\* handed to getPrescriptionByHash.
FindLookupNoLedgerScan(p, h, id, tag, drv) ==
  IF drv = "null"
  THEN Finish(p, [op |-> "find", val |-> MockByHash(h), hash |-> h, id |-> id,
                  tag |-> tag])
  ELSE /\ proc' = [proc EXCEPT ![p] = [Idle EXCEPT !.op = "find", !.pc = "query",
                                         !.hash = h, !.id = id, !.tag = tag]]
       /\ ret' = NoRet

\* getPrescriptionFromHash after ensureNeo4jInitialized: the ledger scan and
\* getPrescriptionByHash up to its session.run.
FindLookup(p, h, id, tag, drv) ==
  IF ~LedgerHasHash(h)
  THEN Finish(p, [op |-> "find", val |-> <<>>, hash |-> h, id |-> id,
                  tag |-> tag])
  ELSE IF drv = "null"
  THEN Finish(p, [op |-> "find", val |-> MockByHash(h), hash |-> h, id |-> id,
                  tag |-> tag])
  ELSE /\ proc' = [proc EXCEPT ![p] = [Idle EXCEPT !.op = "find", !.pc = "query",
                                         !.hash = h, !.id = id, !.tag = tag]]
       /\ ret' = NoRet

\* initNeo4j settles (verifyConnectivity and initializeSchema succeeded, or the
\* catch returned null); the caller sets neo4jInitialized and goes on to its
\* setTimeout or its lookup.
InitDone(p) ==
  /\ proc[p].pc = "init"
  /\ neo4jInitialized' = TRUE
  /\ CASE proc[p].op = "submit" ->
            /\ proc' = [proc EXCEPT ![p].pc = "timer",
                                    ![p].deadline = now + StoreDelay]
            /\ ret' = NoRet
       [] proc[p].op = "refresh" ->
            /\ proc' = [proc EXCEPT ![p].pc = "timer",
                                    ![p].deadline = now + UpdateDelay]
            /\ ret' = NoRet
       [] OTHER ->
            FindLookup(p, proc[p].hash, proc[p].id, proc[p].tag, driver)
  /\ UNCHANGED <<started, now, dbMode, driver, initCalls, heap, resultsStore,
                 blockchainRecords, mockGraphData, graph, jobs, refreshed, submittedFor, overlap, newest, graphNodes, payload, hashLog, input>>

\* A continuation that also overwrites the status of the analysis.
RecordedResultRestatused(r) ==
  Spread(r, [blockchainStatus |-> "Recorded", status |-> "invalid"])

\* resultsStore[analysisId].blockchainStatus = "Recorded"
RecordedResult(r) == Spread(r, [blockchainStatus |-> "Recorded"])

\* A refresh that sets the result back to Pending.
RefreshedResultPending(r, t) ==
  Spread(r, [lastUpdated |-> t, blockchainStatus |-> "Pending"])

\* resultsStore[id].lastUpdated = new Date().toISOString();
\* resultsStore[id].blockchainStatus = "Updated"
RefreshedResult(r, t) ==
  Spread(r, [lastUpdated |-> t, blockchainStatus |-> "Updated"])

\* The 1000 ms timer of storeOnBlockchain fires: ledger record, graph store
\* (fallback entry, or a transaction that is not awaited), then the
\* continuation of analyzePrescription sets blockchainStatus.
SubmitTimer(p) ==
  /\ proc[p].op = "submit" /\ proc[p].pc = "timer"
  /\ now >= proc[p].deadline
  /\ LET data == heap[proc[p].ref]
         h == generateHash(data)
         cur == Get(resultsStore, proc[p].id)
     IN /\ blockchainRecords' = Put(blockchainRecords, data.id, LedgerRecord(data, h))
        /\ hashLog' = Append(hashLog, [str |-> Stringify(data), hash |-> h])
        /\ IF driver = "null"
           THEN /\ mockGraphData' =
                     PutHashKey(mockGraphData, h,
                                [result |-> proc[p].ref, patientInfo |-> proc[p].form])
                /\ jobs' = jobs
           ELSE /\ jobs' = Append(jobs, [kind |-> "store", ref |-> proc[p].ref,
                                         id |-> data.id, hash |-> h,
                                         patient |-> proc[p].form,
                                         status |-> data.status,
                                         lastUpdated |-> data.lastUpdated])
                /\ mockGraphData' = mockGraphData
        /\ heap' = [heap EXCEPT ![cur] = RecordedResult(heap[cur])]
  /\ Finish(p, [op |-> "submit", ok |-> TRUE, form |-> proc[p].form,
                id |-> proc[p].id, clean |-> proc[p].clean,
                hist |-> proc[p].hist])
  /\ UNCHANGED <<started, now, dbMode, driver, neo4jInitialized, initCalls, resultsStore,
                 graph, refreshed, submittedFor, overlap, newest, graphNodes, payload, input>>

\* ------------------------------------------ medication names of a free text
\* Texts are sequences of one-character strings.
Letters ==
  {"a", "b", "c", "d", "e", "f", "g", "h", "i", "j", "k", "l", "m",
   "n", "o", "p", "q", "r", "s", "t", "u", "v", "w", "x", "y", "z",
   "A", "B", "C", "D", "E", "F", "G", "H", "I", "J", "K", "L", "M",
   "N", "O", "P", "Q", "R", "S", "T", "U", "V", "W", "X", "Y", "Z"}
\* The characters of \s and of trim().
Whitespace == {" ", "\t", "\n"}
\* /[,\n]/
Separators == {",", "\n"}

\* The characters of the prescription texts of Forms.
Chars(str) ==
  CASE str = "Lisinopril 10mg" ->
         <<"L", "i", "s", "i", "n", "o", "p", "r", "i", "l", " ", "1", "0", "m", "g">>
    [] str = "Metformin 500mg" ->
         <<"M", "e", "t", "f", "o", "r", "m", "i", "n", " ", "5", "0", "0", "m", "g">>
    [] OTHER -> <<>>

\* prescription.split(/[,\n]/)
RECURSIVE Split(_)
Split(s) ==
  IF \A i \in DOMAIN s : s[i] \notin Separators THEN <<s>>
  ELSE LET k == CHOOSE i \in DOMAIN s :
                   /\ s[i] \in Separators
                   /\ \A j \in 1..(i - 1) : s[j] \notin Separators
       IN <<SubSeq(s, 1, k - 1)>> \o Split(SubSeq(s, k + 1, Len(s)))

RECURSIVE TrimStart(_)
TrimStart(s) ==
  IF s # <<>> /\ Head(s) \in Whitespace THEN TrimStart(Tail(s)) ELSE s

RECURSIVE TrimEnd(_)
TrimEnd(s) ==
  IF s # <<>> /\ s[Len(s)] \in Whitespace
  THEN TrimEnd(SubSeq(s, 1, Len(s) - 1)) ELSE s

\* String.prototype.trim()
Trim(s) == TrimEnd(TrimStart(s))

\* match[0] of /^([A-Za-z\s]+)/, <<>> when there is no match (null).
RECURSIVE MatchRun(_)
MatchRun(s) ==
  IF s # <<>> /\ Head(s) \in Letters \cup Whitespace
  THEN <<Head(s)>> \o MatchRun(Tail(s)) ELSE <<>>

\* The leading run of letters alone, nothing for an entry that has none.
MedicationNameLettersOnly(med) ==
  LET t == Trim(med)
      k == CHOOSE n \in 0..Len(t) :
             /\ \A i \in 1..n : t[i] \in Letters
             /\ n = Len(t) \/ t[n + 1] \notin Letters
  IN SubSeq(t, 1, k)

\* The callback of .map: match ? match[0].trim() : med.trim()
MedicationName(med) ==
  LET match == MatchRun(Trim(med))
  IN IF match # <<>> THEN Trim(match) ELSE Trim(med)

extractMedicationsFromPrescription(prescription) ==
  LET parts == Split(prescription)
  IN SelectSeq([i \in DOMAIN parts |-> MedicationName(parts[i])],
               LAMBDA med : Len(med) > 0)

\* ------------------------------------------- the transaction of a graph store
\* One call of storePrescriptionInGraph: its arguments and its `medications`.
GraphCall(data, patientInfo, blockchainHash, medications) ==
  [data |-> data, patient |-> patientInfo, hash |-> blockchainHash,
   meds |-> medications]

\* The tx.run calls of one storePrescriptionInGraph call, in program order.
TxWrites(call) ==
  <<[kind |-> "patient", arg |-> 0], [kind |-> "prescription", arg |-> 0]>>
    \o [i \in DOMAIN call.meds |-> [kind |-> "medication", arg |-> i]]
    \o [i \in DOMAIN FieldOrEmpty(call.data, "issues") |->
          [kind |-> "issue", arg |-> i]]
    \o [i \in DOMAIN FieldOrEmpty(call.data, "suggestions") |->
          [kind |-> "suggestion", arg |-> i]]

CountKind(writes, kind) ==
  Cardinality({i \in DOMAIN writes : writes[i].kind = kind})

\* The Prescription node that `writes` create, with the relations they
\* attach to it: RECEIVED, INCLUDES, HAS_ISSUE, HAS_SUGGESTION.
PrescriptionNode(call, writes) ==
  [id |-> call.data.id, blockchainHash |-> call.hash,
   originalPrescription |-> call.data.originalPrescription,
   status |-> call.data.status, timestamp |-> call.data.timestamp,
   lastUpdated |-> call.data.lastUpdated,
   patient |-> [name |-> call.patient.name, age |-> call.patient.age,
                gender |-> call.patient.gender],
   medications |-> SubSeq(call.meds, 1, CountKind(writes, "medication")),
   issues |-> SubSeq(FieldOrEmpty(call.data, "issues"), 1,
                     CountKind(writes, "issue")),
   suggestions |-> SubSeq(FieldOrEmpty(call.data, "suggestions"), 1,
                          CountKind(writes, "suggestion"))]

\* The Patient node of MERGE (p:Patient {name, age, gender}).
PatientNode(patientInfo) ==
  [label |-> "Patient",
   props |-> <<patientInfo.name, patientInfo.age, patientInfo.gender>>]

\* The Medication node of MERGE (m:Medication {name}).
MedicationNode(med) == [label |-> "Medication", props |-> med]

\* tx.commit(): the writes of the transaction reach the database together.
TxCommit(db, writes, call) ==
  [graph |-> IF CountKind(writes, "prescription") > 0
             THEN Append(db.graph, PrescriptionNode(call, writes))
             ELSE db.graph,
   nodes |-> db.nodes
               \cup (IF CountKind(writes, "patient") > 0
                     THEN {PatientNode(call.patient)} ELSE {})
               \cup {MedicationNode(call.meds[i]) :
                       i \in 1..CountKind(writes, "medication")}]

\* A rollback that leaves the writes made so far in the database.
TxRollbackKeepsWrites(db, writes, call) == TxCommit(db, writes, call)

\* tx.rollback(): none of the writes of the transaction reaches the database.
TxRollback(db, writes, call) == db

\* The unique constraint on Prescription.id (initializeSchema).
IdTaken(g, id) == \E k \in DOMAIN g : g[k].id = id

\* A graph write that nobody awaits settles: the transaction of
\* storePrescriptionInGraph commits or rolls back as a whole, the SET of
\* updatePrescriptionInGraph runs or fails; errors go to console.error.
GraphJobRun(i) ==
  /\ i \in DOMAIN jobs
  /\ LET j == jobs[i]
         data == heap[j.ref]
         call == GraphCall(data, j.patient, j.hash,
                           extractMedicationsFromPrescription(
                             Chars(data.originalPrescription)))
         db == [graph |-> graph, nodes |-> graphNodes]
         stored == IF dbMode # "up" \/ IdTaken(graph, data.id)
                   THEN TxRollback(db, TxWrites(call), call)
                   ELSE TxCommit(db, TxWrites(call), call)
     IN IF j.kind = "store"
        THEN /\ graph' = stored.graph
             /\ graphNodes' = stored.nodes
        ELSE /\ graph' =
                  IF dbMode # "up" THEN graph
                  ELSE [k \in DOMAIN graph |->
                          IF graph[k].id = j.id
                          THEN Spread(graph[k], [status |-> j.status,
                                                 lastUpdated |-> j.lastUpdated,
                                                 blockchainHash |-> j.hash])
                          ELSE graph[k]]
             /\ graphNodes' = graphNodes
  /\ jobs' = SubSeq(jobs, 1, i - 1) \o SubSeq(jobs, i + 1, Len(jobs))
  /\ UNCHANGED <<started, now, dbMode, driver, neo4jInitialized, initCalls, heap,
                 resultsStore, blockchainRecords, mockGraphData, proc,
                 refreshed, submittedFor, overlap, newest, payload, hashLog, input>>
  /\ ret' = NoRet

RefreshErrorRethrown(cause) == cause

\* The catch of updateBlockchainRecord: whatever was thrown, the caller gets
\* new Error("Failed to update blockchain record").
RefreshError(cause) == "Failed to update blockchain record"

\* updateBlockchainRecord up to the first real await of updateOnBlockchain.
RefreshStart(p, id) ==
  /\ CanStart(p)
  /\ started' = started + 1
  /\ IF ~Has(resultsStore, id)
     THEN /\ Finish(p, [op |-> "refresh", ok |-> FALSE,
                        err |-> RefreshError("Record not found"),
                        id |-> id, tag |-> "unknown"])
          /\ UNCHANGED <<driver, neo4jInitialized, initCalls>>
     ELSE /\ EnsureInit
          /\ proc' = [proc EXCEPT ![p] =
                        [Idle EXCEPT !.op = "refresh", !.id = id,
                           !.ref = Get(resultsStore, id),
                           !.tag = heap[Get(resultsStore, id)].blockchainStatus,
                           !.pc = IF InitAwaited THEN "init" ELSE "timer",
                           !.deadline = IF InitAwaited THEN 0
                                        ELSE now + UpdateDelay]]
          /\ ret' = NoRet
  /\ UNCHANGED <<now, dbMode, heap, resultsStore, blockchainRecords,
                 mockGraphData, graph, jobs, refreshed, submittedFor, overlap, newest, graphNodes, payload, hashLog, input>>

\* The 1500 ms timer of updateOnBlockchain fires.
RefreshTimer(p) ==
  /\ proc[p].op = "refresh" /\ proc[p].pc = "timer"
  /\ now >= proc[p].deadline
  /\ IF Has(blockchainRecords, proc[p].id)
     THEN LET data == heap[proc[p].ref]
              h == generateHash(data)
              cur == Get(resultsStore, proc[p].id)
          IN /\ hashLog' = Append(hashLog, [str |-> Stringify(data), hash |-> h])
             /\ blockchainRecords' =
                  Put(blockchainRecords, proc[p].id,
                      LedgerUpdate(Get(blockchainRecords, proc[p].id), data, h, now))
             /\ IF driver = "null"
                THEN /\ mockGraphData' = MockUpdate(mockGraphData, data, proc[p].ref, h)
                     /\ jobs' = jobs
                ELSE /\ jobs' = Append(jobs, [kind |-> "update", ref |-> proc[p].ref,
                                              id |-> data.id, hash |-> h,
                                              patient |-> NoForm,
                                              status |-> data.status,
                                              lastUpdated |-> data.lastUpdated])
                     /\ mockGraphData' = mockGraphData
             /\ heap' = [heap EXCEPT ![cur] = RefreshedResult(heap[cur], now)]
             /\ refreshed' = refreshed \cup {proc[p].id}
             /\ Finish(p, [op |-> "refresh", ok |-> TRUE, id |-> proc[p].id,
                           tag |-> proc[p].tag])
     ELSE /\ Finish(p, [op |-> "refresh", ok |-> FALSE,
                        err |-> RefreshError("Record not found on blockchain"),
                        id |-> proc[p].id, tag |-> proc[p].tag])
          /\ UNCHANGED <<blockchainRecords, mockGraphData, jobs, heap, refreshed,
                         hashLog>>
  /\ UNCHANGED <<submittedFor, overlap, newest, started, now, dbMode, driver, neo4jInitialized, initCalls, resultsStore,
                 graph, graphNodes, payload, input>>

\* The canned example of getPrescriptionResults.
MockResult(t) ==
  [id |-> <<"rx-mock-123456">>,
   originalPrescription |-> "Lisinopril 10mg once daily, Metformin 500mg twice daily",
   status |-> "warning", issues |-> <<"medium">>, suggestions |-> <<"s", "s">>,
   dataSources |-> [vectorDbEntries |-> 1245, searchQueries |-> 3],
   timestamp |-> t, blockchainStatus |-> "Recorded", lastUpdated |-> t]

\* getPrescriptionResults: resultsStore[keys[keys.length - 1]]
LatestResult ==
  IF Len(resultsStore) = 0 THEN MockResult(now)
  ELSE heap[resultsStore[Len(resultsStore)].v]

Latest(p) ==
  /\ CanStart(p)
  /\ started' = started + 1
  /\ Finish(p, [op |-> "latest", val |-> <<LatestResult>>])
  /\ UNCHANGED <<now, dbMode, driver, neo4jInitialized, initCalls, heap,
                 resultsStore, blockchainRecords, mockGraphData, graph, jobs,
                 refreshed, submittedFor, overlap, newest, graphNodes, payload, hashLog, input>>

\* The fingerprints a caller can ask for: those the ledger holds, and one
\* that was never stored.
LedgerIdOfHash(h) ==
  IF LedgerHasHash(h)
  THEN blockchainRecords[CHOOSE i \in DOMAIN blockchainRecords :
         /\ blockchainRecords[i].v.hash = h
         /\ \A k \in 1..(i - 1) : blockchainRecords[k].v.hash # h].v.id
  ELSE NoId

\* searchPrescriptionByHash up to the first real await.
FindStart(p, h) ==
  /\ CanStart(p)
  /\ started' = started + 1
  /\ EnsureInit
  /\ LET id == LedgerIdOfHash(h)
         tag == IF id = NoId THEN "never"
                ELSE IF id \in refreshed THEN "refreshed"
                ELSE "stored"
     IN IF InitAwaited
        THEN /\ proc' = [proc EXCEPT ![p] = [Idle EXCEPT !.op = "find", !.pc = "init",
                                               !.hash = h, !.id = id, !.tag = tag]]
             /\ ret' = NoRet
        ELSE FindLookup(p, h, id, tag, driver)
  /\ UNCHANGED <<now, dbMode, heap, resultsStore, blockchainRecords,
                 mockGraphData, graph, jobs, refreshed, submittedFor, overlap, newest, graphNodes, payload, hashLog, input>>

\* session.run of getPrescriptionByHash settles; searchPrescriptionByHash
\* turns a thrown error into null.
FindQueryDone(p) ==
  /\ proc[p].op = "find" /\ proc[p].pc = "query"
  /\ Finish(p, [op |-> "find", hash |-> proc[p].hash, id |-> proc[p].id,
                tag |-> proc[p].tag,
                val |-> IF dbMode = "up" THEN GraphByHash(proc[p].hash) ELSE <<>>,
                err |-> IF dbMode = "up" THEN "" ELSE "caught"])
  /\ UNCHANGED <<started, now, dbMode, driver, neo4jInitialized, initCalls, heap,
                 resultsStore, blockchainRecords, mockGraphData, graph, jobs,
                 refreshed, submittedFor, overlap, newest, graphNodes, payload, hashLog, input>>

\* getPatientHistory up to the session.run of getPatientPrescriptionHistory.
HistoryStart(p, form) ==
  /\ CanStart(p)
  /\ started' = started + 1
  /\ IF driver = "null"
     THEN Finish(p, [op |-> "history", form |-> form,
                     val |-> MockHistory(form.name)])
     ELSE /\ proc' = [proc EXCEPT ![p] = [Idle EXCEPT !.op = "history",
                                            !.pc = "query", !.form = form]]
          /\ ret' = NoRet
  /\ UNCHANGED <<now, dbMode, driver, neo4jInitialized, initCalls, heap,
                 resultsStore, blockchainRecords, mockGraphData, graph, jobs,
                 refreshed, submittedFor, overlap, newest, graphNodes, payload, hashLog, input>>

\* getPatientHistory without its try/catch: the rejection of the lookup
\* reaches the caller.
HistoryOutcomeNoCatch(name) ==
  IF dbMode = "up"
  THEN [ok |-> TRUE, val |-> GraphHistory(name), err |-> ""]
  ELSE [ok |-> FALSE, val |-> <<>>, err |-> "thrown"]

\* What getPatientHistory returns once the session.run of
\* getPatientPrescriptionHistory has settled: the rows, or the empty list
\* of its catch when the query was rejected.
HistoryOutcome(name) ==
  IF dbMode = "up"
  THEN [ok |-> TRUE, val |-> GraphHistory(name), err |-> ""]
  ELSE [ok |-> TRUE, val |-> <<>>, err |-> "caught"]

\* session.run of getPatientPrescriptionHistory settles; getPatientHistory
\* turns a thrown error into the empty list.
HistoryQueryDone(p) ==
  /\ proc[p].op = "history" /\ proc[p].pc = "query"
  /\ Finish(p, Spread([op |-> "history", form |-> proc[p].form],
                      HistoryOutcome(proc[p].form.name)))
  /\ UNCHANGED <<started, now, dbMode, driver, neo4jInitialized, initCalls, heap,
                 resultsStore, blockchainRecords, mockGraphData, graph, jobs,
                 refreshed, submittedFor, overlap, newest, graphNodes, payload, hashLog, input>>

LedgerHashes == {blockchainRecords[i].v.hash : i \in DOMAIN blockchainRecords}

Next ==
  \/ Tick
  \/ \E p \in Procs, form \in Forms, r \in Rands : SubmitStart(p, form, r)
  \/ \E p \in Procs : SubmitHistDone(p)
  \/ \E p \in Procs : \E raw \in AIResponses(proc[p].form.prescription) : SubmitAI(p, raw)
  \/ \E p \in Procs : InitDone(p)
  \/ \E p \in Procs : SubmitTimer(p)
  \/ \E i \in DOMAIN jobs : GraphJobRun(i)
  \/ \E p \in Procs, id \in Keys(resultsStore) \cup {UnknownId} : RefreshStart(p, id)
  \/ \E p \in Procs : RefreshTimer(p)
  \/ \E p \in Procs : Latest(p)
  \/ \E p \in Procs, h \in LedgerHashes \cup {NeverHash} : FindStart(p, h)
  \/ \E p \in Procs : FindQueryDone(p)
  \/ \E p \in Procs, form \in Forms : HistoryStart(p, form)
  \/ \E p \in Procs : HistoryQueryDone(p)

Spec == Init /\ [][Next]_vars


\* ------------------------------------------- the ledger stub called directly
\* The exported functions of the ledger stub, called by a client of the
\* module with results of its own.
GetDelay == 1

\* The caller's results: two with the same id, one without issues and
\* suggestions.
LedgerInputs ==
  << [id |-> <<"rx", 0, 0>>, originalPrescription |-> "Lisinopril 10mg",
      status |-> "valid", issues |-> <<>>, suggestions |-> <<>>,
      timestamp |-> 0, blockchainStatus |-> "Pending", lastUpdated |-> 0],
     [id |-> <<"rx", 0, 0>>, originalPrescription |-> "Lisinopril 10mg",
      status |-> "warning", issues |-> <<"high">>, suggestions |-> <<"s", "s">>,
      timestamp |-> 1, blockchainStatus |-> "Pending", lastUpdated |-> 1],
     [id |-> <<"rx", 0, 1>>, originalPrescription |-> "Metformin 500mg",
      status |-> "invalid",
      timestamp |-> 0, blockchainStatus |-> "Pending", lastUpdated |-> 0] >>

\* The patientInfo handed to storeOnBlockchain.
LedgerPatient == CHOOSE f \in Forms : f.name = "A"

LedgerIds == {LedgerInputs[i].id : i \in DOMAIN LedgerInputs} \cup {UnknownId}

InitLedger ==
  /\ now = 0
  /\ dbMode \in {"up", "down", "badconfig"}
  /\ driver = "null"
  /\ neo4jInitialized = FALSE
  /\ initCalls = 0
  /\ heap = LedgerInputs
  /\ resultsStore = <<>>
  /\ blockchainRecords = <<>>
  /\ mockGraphData = <<>>
  /\ graph = <<>>
  /\ jobs = <<>>
  /\ proc = [p \in Procs |-> Idle]
  /\ ret = NoRet
  /\ refreshed = {}
  /\ started = 0
  /\ submittedFor = {}
  /\ overlap = FALSE
  /\ newest = [seq |-> -1, ref |-> 0]
  /\ graphNodes = {}
  /\ payload = <<>>
  /\ hashLog = <<>>
  /\ input = <<>>

\* A call of storeOnBlockchain, getBlockchainRecord or updateOnBlockchain up
\* to the await of ensureNeo4jInitialized or, past it, to its setTimeout.
LedgerCall(p, op, id, ref, delay) ==
  /\ CanStart(p)
  /\ started' = started + 1
  /\ EnsureInit
  /\ proc' = [proc EXCEPT ![p] =
                [Idle EXCEPT !.op = op, !.id = id, !.ref = ref,
                             !.form = LedgerPatient,
                             !.pc = IF InitAwaited THEN "init" ELSE "timer",
                             !.deadline = IF InitAwaited THEN delay
                                          ELSE now + delay]]
  /\ ret' = NoRet
  /\ UNCHANGED <<now, dbMode, heap, resultsStore, blockchainRecords,
                 mockGraphData, graph, jobs, refreshed, submittedFor, overlap,
                 newest, graphNodes, payload, hashLog, input>>

\* initNeo4j settles for a call of the ledger stub, which sets its timer.
LedgerInitDone(p) ==
  /\ proc[p].pc = "init"
  /\ neo4jInitialized' = TRUE
  /\ proc' = [proc EXCEPT ![p].pc = "timer",
                          ![p].deadline = now + proc[p].deadline]
  /\ ret' = NoRet
  /\ UNCHANGED <<started, now, dbMode, driver, initCalls, heap, resultsStore,
                 blockchainRecords, mockGraphData, graph, jobs, refreshed,
                 submittedFor, overlap, newest, graphNodes, payload, hashLog, input>>

\* The timer callback of storeOnBlockchain.
LedgerStoreTimer(p) ==
  /\ proc[p].op = "store" /\ proc[p].pc = "timer"
  /\ now >= proc[p].deadline
  /\ LET data == heap[proc[p].ref]
         h == generateHash(data)
     IN /\ blockchainRecords' = Put(blockchainRecords, data.id, LedgerRecord(data, h))
        /\ hashLog' = Append(hashLog, [str |-> Stringify(data), hash |-> h])
        /\ IF driver = "null"
           THEN /\ mockGraphData' =
                     PutHashKey(mockGraphData, h,
                                [result |-> proc[p].ref, patientInfo |-> proc[p].form])
                /\ jobs' = jobs
           ELSE /\ jobs' = Append(jobs, [kind |-> "store", ref |-> proc[p].ref,
                                         id |-> data.id, hash |-> h,
                                         patient |-> proc[p].form,
                                         status |-> data.status,
                                         lastUpdated |-> data.lastUpdated])
                /\ mockGraphData' = mockGraphData
        /\ Finish(p, [op |-> "store", ok |-> TRUE, id |-> data.id,
                      val |-> <<data>>, hash |-> h,
                      tag |-> IF Has(blockchainRecords, data.id)
                              THEN "overwrote" ELSE "new"])
  /\ UNCHANGED <<started, now, dbMode, driver, neo4jInitialized, initCalls, heap,
                 resultsStore, graph, refreshed, submittedFor, overlap, newest, graphNodes, payload, input>>

\* The timer callback of getBlockchainRecord.
LedgerGetTimer(p) ==
  /\ proc[p].op = "get" /\ proc[p].pc = "timer"
  /\ now >= proc[p].deadline
  /\ IF Has(blockchainRecords, proc[p].id)
     THEN Finish(p, [op |-> "get", ok |-> TRUE, id |-> proc[p].id,
                     val |-> <<Get(blockchainRecords, proc[p].id)>>])
     ELSE Finish(p, [op |-> "get", ok |-> FALSE, id |-> proc[p].id,
                     err |-> "Record not found on blockchain"])
  /\ UNCHANGED <<started, now, dbMode, driver, neo4jInitialized, initCalls, heap,
                 resultsStore, blockchainRecords, mockGraphData, graph, jobs,
                 refreshed, submittedFor, overlap, newest, graphNodes, payload, hashLog, input>>

\* The timer callback of updateOnBlockchain.
LedgerUpdateTimer(p) ==
  /\ proc[p].op = "update" /\ proc[p].pc = "timer"
  /\ now >= proc[p].deadline
  /\ LET data == heap[proc[p].ref]
         h == generateHash(data)
     IN IF Has(blockchainRecords, proc[p].id)
        THEN /\ hashLog' = Append(hashLog, [str |-> Stringify(data), hash |-> h])
             /\ blockchainRecords' =
                  Put(blockchainRecords, proc[p].id,
                      LedgerUpdate(Get(blockchainRecords, proc[p].id), data, h, now))
             /\ IF driver = "null"
                THEN /\ mockGraphData' = MockUpdate(mockGraphData, data, proc[p].ref, h)
                     /\ jobs' = jobs
                ELSE /\ jobs' = Append(jobs, [kind |-> "update", ref |-> proc[p].ref,
                                              id |-> data.id, hash |-> h,
                                              patient |-> NoForm,
                                              status |-> data.status,
                                              lastUpdated |-> data.lastUpdated])
                     /\ mockGraphData' = mockGraphData
             /\ Finish(p, [op |-> "update", ok |-> TRUE, id |-> proc[p].id,
                           val |-> <<data>>, hash |-> h])
        ELSE /\ Finish(p, [op |-> "update", ok |-> FALSE, id |-> proc[p].id,
                           val |-> <<data>>,
                           err |-> "Record not found on blockchain"])
             /\ UNCHANGED <<blockchainRecords, mockGraphData, jobs, hashLog>>
  /\ UNCHANGED <<started, now, dbMode, driver, neo4jInitialized, initCalls, heap,
                 resultsStore, graph, refreshed, submittedFor, overlap, newest, graphNodes, payload, input>>

NextLedger ==
  \/ Tick
  \/ \E p \in Procs, ref \in DOMAIN LedgerInputs :
       LedgerCall(p, "store", LedgerInputs[ref].id, ref, StoreDelay)
  \/ \E p \in Procs, id \in LedgerIds : LedgerCall(p, "get", id, 0, GetDelay)
  \/ \E p \in Procs, id \in LedgerIds, ref \in DOMAIN LedgerInputs :
       LedgerCall(p, "update", id, ref, UpdateDelay)
  \/ \E p \in Procs : LedgerInitDone(p)
  \/ \E p \in Procs : LedgerStoreTimer(p)
  \/ \E p \in Procs : LedgerGetTimer(p)
  \/ \E p \in Procs : LedgerUpdateTimer(p)
  \/ \E i \in DOMAIN jobs : GraphJobRun(i)

SpecLedger == InitLedger /\ [][NextLedger]_vars

\* --------------------------------------- the graph adapter called directly
\* storePrescriptionInGraph called and awaited by a client of the module,
\* one tx.run at a time.
MaxLen == 3
MaxCalls == 2

\* The characters prescription texts are drawn from.
TextChars == {"L", "m", "1", " ", ",", "\n"}

TextsUpTo(n) == UNION {[1..k -> TextChars] : k \in 0..n}

\* "Lisinopril 10mg, Metformin 500mg"
ExampleText ==
  Chars("Lisinopril 10mg") \o <<",", " ">> \o Chars("Metformin 500mg")

Prescriptions == TextsUpTo(MaxLen) \cup {ExampleText}

\* The caller's results: the first with the drawn text, an issue and a
\* suggestion, the second with the same id, the third with another id.
GraphInputs(text) ==
  << [id |-> <<"rx", 0, 0>>, originalPrescription |-> text,
      status |-> "warning", issues |-> <<"high">>, suggestions |-> <<"s">>,
      timestamp |-> 0, blockchainStatus |-> "Recorded", lastUpdated |-> 0],
     [id |-> <<"rx", 0, 0>>, originalPrescription |-> <<"M">>,
      status |-> "valid", issues |-> <<>>, suggestions |-> <<>>,
      timestamp |-> 1, blockchainStatus |-> "Recorded", lastUpdated |-> 1],
     [id |-> <<"rx", 0, 1>>, originalPrescription |-> <<"L", " ", "1">>,
      status |-> "invalid",
      timestamp |-> 1, blockchainStatus |-> "Recorded", lastUpdated |-> 1] >>

\* The fingerprint the caller passes with the ref-th result.
GraphHashOf(ref) == <<0, 0, 0, 0, 0, 0, 0, 10 + ref>>

InitGraph ==
  /\ now = 0
  /\ dbMode \in {"up", "down", "badconfig"}
  /\ driver = IF dbMode = "badconfig" THEN "null" ELSE "driver"
  /\ neo4jInitialized = TRUE
  /\ initCalls = 1
  /\ heap \in {GraphInputs(text) : text \in Prescriptions}
  /\ resultsStore = <<>>
  /\ blockchainRecords = <<>>
  /\ mockGraphData = <<>>
  /\ graph = <<>>
  /\ jobs = <<>>
  /\ proc = [p \in Procs |-> Idle]
  /\ ret = NoRet
  /\ refreshed = {}
  /\ started = 0
  /\ submittedFor = {}
  /\ overlap = FALSE
  /\ newest = [seq |-> -1, ref |-> 0]
  /\ graphNodes = {}
  /\ payload = <<>>
  /\ hashLog = <<>>
  /\ input = <<>>

\* The call a request in storePrescriptionInGraph is running.
CallOf(p) ==
  GraphCall(heap[proc[p].ref], proc[p].form, proc[p].hash, proc[p].meds)

\* storePrescriptionInGraph up to its return on the fallback path or, on the
\* connected path, to the first await tx.run.
GraphStoreCall(p, ref) ==
  /\ proc[p].pc = "idle"
  /\ started < MaxCalls
  /\ \A q \in Procs : q < p => proc[q].pc # "idle"
  /\ started' = started + 1
  /\ IF driver = "null"
     THEN /\ mockGraphData' =
               PutHashKey(mockGraphData, GraphHashOf(ref),
                          [result |-> ref, patientInfo |-> LedgerPatient])
          /\ Finish(p, [op |-> "graphStore", ok |-> TRUE, id |-> heap[ref].id,
                        hash |-> GraphHashOf(ref), tag |-> "mock"])
     ELSE /\ proc' = [proc EXCEPT ![p] =
                        [Idle EXCEPT !.op = "graphStore", !.pc = "tx",
                                     !.id = heap[ref].id, !.ref = ref,
                                     !.form = LedgerPatient,
                                     !.hash = GraphHashOf(ref),
                                     !.meds = extractMedicationsFromPrescription(
                                                heap[ref].originalPrescription)]]
          /\ ret' = NoRet
          /\ UNCHANGED mockGraphData
  /\ UNCHANGED <<now, dbMode, driver, neo4jInitialized, initCalls, heap,
                 resultsStore, blockchainRecords, graph, jobs, refreshed,
                 submittedFor, overlap, newest, graphNodes, payload, hashLog, input>>

\* The write the transaction of p runs next, <<>> when only the commit is left.
NextWrite(p) ==
  LET all == TxWrites(CallOf(p))
  IN IF Len(proc[p].tx) < Len(all) THEN <<all[Len(proc[p].tx) + 1]>> ELSE <<>>

\* The CREATE of the Prescription node, and the commit of a transaction that
\* holds it, break the unique constraint when the id is in the database.
ConstraintBroken(p) ==
  /\ IdTaken(graph, proc[p].id)
  /\ \/ NextWrite(p) = <<>>
     \/ NextWrite(p) # <<>> /\ NextWrite(p)[1].kind = "prescription"

\* An awaited tx.run settles successfully.
GraphWriteDone(p) ==
  /\ proc[p].op = "graphStore" /\ proc[p].pc = "tx"
  /\ dbMode = "up"
  /\ NextWrite(p) # <<>>
  /\ ~ConstraintBroken(p)
  /\ proc' = [proc EXCEPT ![p].tx = Append(proc[p].tx, NextWrite(p)[1])]
  /\ ret' = NoRet
  /\ UNCHANGED <<started, now, dbMode, driver, neo4jInitialized, initCalls, heap,
                 resultsStore, blockchainRecords, mockGraphData, graph, jobs,
                 refreshed, submittedFor, overlap, newest, graphNodes,
                 payload, hashLog, input>>

\* tx.commit() settles successfully, the session is closed and the call
\* returns.
GraphCommitDone(p) ==
  /\ proc[p].op = "graphStore" /\ proc[p].pc = "tx"
  /\ dbMode = "up"
  /\ NextWrite(p) = <<>>
  /\ ~ConstraintBroken(p)
  /\ LET db == TxCommit([graph |-> graph, nodes |-> graphNodes],
                        proc[p].tx, CallOf(p))
     IN /\ graph' = db.graph
        /\ graphNodes' = db.nodes
  /\ Finish(p, [op |-> "graphStore", ok |-> TRUE, id |-> proc[p].id,
                hash |-> proc[p].hash, hist |-> proc[p].tx,
                val |-> <<CallOf(p)>>, tag |-> "committed"])
  /\ UNCHANGED <<started, now, dbMode, driver, neo4jInitialized, initCalls, heap,
                 resultsStore, blockchainRecords, mockGraphData, jobs,
                 refreshed, submittedFor, overlap, newest, payload, hashLog, input>>

\* An awaited tx.run or tx.commit() rejects (the server is unreachable, the
\* connection breaks, or the unique constraint is broken): the catch block
\* rolls the transaction back and rethrows, the session is closed.
GraphWriteFails(p, cause) ==
  /\ proc[p].op = "graphStore" /\ proc[p].pc = "tx"
  /\ cause = "ConstraintValidationFailed" => dbMode = "up" /\ ConstraintBroken(p)
  /\ LET db == TxRollback([graph |-> graph, nodes |-> graphNodes],
                          proc[p].tx, CallOf(p))
     IN /\ graph' = db.graph
        /\ graphNodes' = db.nodes
  /\ Finish(p, [op |-> "graphStore", ok |-> FALSE, id |-> proc[p].id,
                hash |-> proc[p].hash, hist |-> proc[p].tx,
                val |-> <<CallOf(p)>>, err |-> cause, tag |-> "rolled back"])
  /\ UNCHANGED <<started, now, dbMode, driver, neo4jInitialized, initCalls, heap,
                 resultsStore, blockchainRecords, mockGraphData, jobs,
                 refreshed, submittedFor, overlap, newest, payload, hashLog, input>>

NextGraph ==
  \/ \E p \in Procs, ref \in 1..3 : GraphStoreCall(p, ref)
  \/ \E p \in Procs : GraphWriteDone(p)
  \/ \E p \in Procs : GraphCommitDone(p)
  \/ \E p \in Procs :
       \E cause \in {"ServiceUnavailable", "ConstraintValidationFailed"} :
         GraphWriteFails(p, cause)

SpecGraph == InitGraph /\ [][NextGraph]_vars

\* ------------------------------- the post-processing of the model's answer
\* The answer of the remote model is a sequence of tokens: a code-fence
\* marker (three backticks), the word json, a line break, and JSON documents or prose.
Fence == "<fence>"
Tokens ==
  {Fence, "json", "\n", "{valid}", "{status: unknown}", "{image: text}",
   "{no image}", "prose"}

Payloads == UNION {[1..k -> Tokens] : k \in 0..MaxLen}

\* response.text(): the payload as it is, or between a fence line with the
\* json tag or without it and a closing fence line.
Wrap(text, fence) ==
  CASE fence = "json" -> <<Fence, "json", "\n">> \o text \o <<"\n", Fence>>
    [] fence = "plain" -> <<Fence, "\n">> \o text \o <<"\n", Fence>>
    [] OTHER -> text

\* A replace of the fence marker alone, without the json tag.
RECURSIVE StripFencesUntaggedOnly(_)
StripFencesUntaggedOnly(text) ==
  IF text = <<>> THEN <<>>
  ELSE IF Head(text) = Fence THEN StripFencesUntaggedOnly(Tail(text))
  ELSE <<Head(text)>> \o StripFencesUntaggedOnly(Tail(text))

\* analysisText.replace: a fence marker with the json tag, or a fence marker.
RECURSIVE StripFences(_)
StripFences(text) ==
  IF text = <<>> THEN <<>>
  ELSE IF Head(text) = Fence /\ Len(text) >= 2 /\ text[2] = "json"
  THEN StripFences(SubSeq(text, 3, Len(text)))
  ELSE IF Head(text) = Fence THEN StripFences(Tail(text))
  ELSE <<Head(text)>> \o StripFences(Tail(text))

\* The rest of the text after an optional line break (\n?).
SkipNewline(text) ==
  IF text # <<>> /\ Head(text) = "\n" THEN Tail(text) ELSE text

\* The first replace: a fence marker with the json tag and a line break, if any.
RECURSIVE StripTagged(_)
StripTagged(text) ==
  IF text = <<>> THEN <<>>
  ELSE IF Head(text) = Fence /\ Len(text) >= 2 /\ text[2] = "json"
  THEN StripTagged(SkipNewline(SubSeq(text, 3, Len(text))))
  ELSE <<Head(text)>> \o StripTagged(Tail(text))

\* The second replace: a fence marker and a line break, if any.
RECURSIVE StripUntagged(_)
StripUntagged(text) ==
  IF text = <<>> THEN <<>>
  ELSE IF Head(text) = Fence THEN StripUntagged(SkipNewline(Tail(text)))
  ELSE <<Head(text)>> \o StripUntagged(Tail(text))

\* The clean-up of the earlier analyzePrescriptionWithRAG.
StripFencesOlder(text) == StripUntagged(StripTagged(text))

\* JSON.parse: the text is one JSON document, or the parse throws.
JsonParse(text) ==
  IF text = <<"{valid}">>
  THEN [status |-> "valid", issues |-> <<>>, suggestions |-> <<>>,
        dataSources |-> DataSources, imageAnalysis |-> "null",
        historyReference |-> "null"]
  ELSE IF text = <<"{status: unknown}">>
  THEN [status |-> "unknown", issues |-> <<>>, suggestions |-> <<>>,
        dataSources |-> DataSources, imageAnalysis |-> "null",
        historyReference |-> "null"]
  ELSE IF text = <<"{image: text}">>
  THEN [status |-> "valid", issues |-> <<>>, suggestions |-> <<>>,
        dataSources |-> DataSources, imageAnalysis |-> "text",
        historyReference |-> "text"]
  ELSE IF text = <<"{no image}">>
  THEN [status |-> "valid", issues |-> <<>>, suggestions |-> <<>>,
        dataSources |-> DataSources]
  ELSE [syntaxError |-> "Unexpected token"]

\* The schema of the earlier analyzePrescriptionWithRAG.
SchemaKeysOlder == {"status", "issues", "suggestions", "dataSources"}

SchemaValidOlder(raw) ==
  /\ SchemaKeysOlder \subseteq DOMAIN raw
  /\ raw.status \in {"valid", "warning", "invalid"}
  /\ \A i \in DOMAIN raw.issues : raw.issues[i] \in {"low", "medium", "high"}

\* What analyzePrescriptionWithRAG does with the text of the answer: the
\* parsed analysis, or the error of its inner catch.
AnalyzeOutcome(text) ==
  LET raw == JsonParse(Trim(StripFences(text)))
  IN IF SchemaValid(raw)
     THEN [ok |-> TRUE, val |-> <<SchemaParse(raw)>>]
     ELSE [ok |-> FALSE, cause |-> AnalyzeError(raw)]

AnalyzeOutcomeOlder(text) ==
  LET raw == JsonParse(Trim(StripFencesOlder(text)))
  IN IF SchemaValidOlder(raw)
     THEN [ok |-> TRUE, val |-> <<[key \in SchemaKeysOlder |-> raw[key]]>>]
     ELSE [ok |-> FALSE, cause |-> AnalyzeError(raw)]

InitAnalyze ==
  /\ now = 0
  /\ dbMode = "up"
  /\ driver = "null"
  /\ neo4jInitialized = FALSE
  /\ initCalls = 0
  /\ heap = <<>>
  /\ resultsStore = <<>>
  /\ blockchainRecords = <<>>
  /\ mockGraphData = <<>>
  /\ graph = <<>>
  /\ jobs = <<>>
  /\ proc = [p \in Procs |-> Idle]
  /\ ret = NoRet
  /\ refreshed = {}
  /\ started = 0
  /\ submittedFor = {}
  /\ overlap = FALSE
  /\ newest = [seq |-> -1, ref |-> 0]
  /\ graphNodes = {}
  /\ payload \in Payloads
  /\ hashLog = <<>>
  /\ input = <<>>

\* analyzePrescriptionWithRAG from the answer of the remote model on.
AnalyzeAnswer(fence) ==
  /\ ret' = Spread(NoRet, Spread([op |-> "analyze", tag |-> fence],
                                 AnalyzeOutcome(Wrap(payload, fence))))
  /\ UNCHANGED <<now, dbMode, driver, neo4jInitialized, initCalls, heap,
                 resultsStore, blockchainRecords, mockGraphData, graph, jobs,
                 proc, refreshed, started, submittedFor, overlap, newest,
                 graphNodes, payload, hashLog, input>>

\* The earlier analyzePrescriptionWithRAG from the answer on.
AnalyzeAnswerOlder(fence) ==
  /\ ret' = Spread(NoRet, Spread([op |-> "analyzeOlder", tag |-> fence],
                                 AnalyzeOutcomeOlder(Wrap(payload, fence))))
  /\ UNCHANGED <<now, dbMode, driver, neo4jInitialized, initCalls, heap,
                 resultsStore, blockchainRecords, mockGraphData, graph, jobs,
                 proc, refreshed, started, submittedFor, overlap, newest,
                 graphNodes, payload, hashLog, input>>

NextAnalyze ==
  \/ \E fence \in {"none", "json", "plain"} : AnalyzeAnswer(fence)
  \/ \E fence \in {"none", "json", "plain"} : AnalyzeAnswerOlder(fence)

SpecAnalyze == InitAnalyze /\ [][NextAnalyze]_vars

\* --------------------------------------- the fingerprint of a given string
\* generateHash for the string a caller serialized itself.  Characters are
\* UTF-16 code units.
HashChars == {34, 48, 97, 65535}

\* "polygenelubricants", whose accumulator ends at -2^31.
MinIntText ==
  <<112, 111, 108, 121, 103, 101, 110, 101, 108, 117, 98, 114, 105, 99, 97,
    110, 116, 115>>

\* {"id":"rx-1
LongText == <<123, 34, 105, 100, 34, 58, 34, 114, 120, 45, 49>>

HashInputs ==
  {pre \o t : pre \in {<<>>, MinIntText, LongText},
              t \in UNION {[1..k -> HashChars] : k \in 0..MaxLen}}

InitHash ==
  /\ now = 0
  /\ dbMode = "up"
  /\ driver = "null"
  /\ neo4jInitialized = FALSE
  /\ initCalls = 0
  /\ heap = <<>>
  /\ resultsStore = <<>>
  /\ blockchainRecords = <<>>
  /\ mockGraphData = <<>>
  /\ graph = <<>>
  /\ jobs = <<>>
  /\ proc = [p \in Procs |-> Idle]
  /\ ret = NoRet
  /\ refreshed = {}
  /\ started = 0
  /\ submittedFor = {}
  /\ overlap = FALSE
  /\ newest = [seq |-> -1, ref |-> 0]
  /\ graphNodes = {}
  /\ payload = <<>>
  /\ hashLog = <<>>
  /\ input \in HashInputs

\* One invocation of generateHash on the string.
HashCall ==
  /\ Len(hashLog) < MaxCalls
  /\ hashLog' = Append(hashLog, [str |-> input, hash |-> HashString(input)])
  /\ ret' = Spread(NoRet, [op |-> "hash", hash |-> HashString(input)])
  /\ UNCHANGED <<now, dbMode, driver, neo4jInitialized, initCalls, heap,
                 resultsStore, blockchainRecords, mockGraphData, graph, jobs,
                 proc, refreshed, started, submittedFor, overlap, newest,
                 graphNodes, payload, input>>

NextHash == HashCall

SpecHash == InitHash /\ [][NextHash]_vars

\* ------------------------------------------ the reference-table lookup
UpperCase ==
  <<"A", "B", "C", "D", "E", "F", "G", "H", "I", "J", "K", "L", "M",
    "N", "O", "P", "Q", "R", "S", "T", "U", "V", "W", "X", "Y", "Z">>
LowerCase ==
  <<"a", "b", "c", "d", "e", "f", "g", "h", "i", "j", "k", "l", "m",
    "n", "o", "p", "q", "r", "s", "t", "u", "v", "w", "x", "y", "z">>

\* String.prototype.toLowerCase()
ToLowerCase(s) ==
  [i \in DOMAIN s |->
     IF \E n \in DOMAIN UpperCase : UpperCase[n] = s[i]
     THEN LowerCase[CHOOSE n \in DOMAIN UpperCase : UpperCase[n] = s[i]]
     ELSE s[i]]

\* String.prototype.includes
Includes(hay, needle) ==
  \E i \in 0..(Len(hay) - Len(needle)) :
    SubSeq(hay, i + 1, i + Len(needle)) = needle

\* The keys of `medicines`, in the order of the object literal.
MedicineKeys ==
  << <<"l", "i", "s", "i", "n", "o", "p", "r", "i", "l">>,
     <<"m", "e", "t", "f", "o", "r", "m", "i", "n">>,
     <<"a", "t", "o", "r", "v", "a", "s", "t", "a", "t", "i", "n">> >>

\* searchVectorDatabase.execute: the key of the entry returned, <<>> for null.
SearchVectorDatabase(medicineName) ==
  LET normalizedName == Trim(ToLowerCase(medicineName))
      hits == {n \in DOMAIN MedicineKeys :
                 \/ Includes(MedicineKeys[n], normalizedName)
                 \/ Includes(normalizedName, MedicineKeys[n])}
  IN IF hits = {} THEN <<>>
     ELSE <<MedicineKeys[CHOOSE n \in hits : \A k \in hits : n <= k]>>

\* prescription.split(/[,\n]/).map((med) => med.trim())
Candidates(prescription) ==
  LET parts == Split(prescription)
  IN [i \in DOMAIN parts |-> Trim(parts[i])]

\* The prescription texts handed to analyzePrescriptionWithRAG: the short
\* texts, the example, the example with a trailing comma and with a blank
\* line.
RagPrescriptions ==
  Prescriptions
    \cup {ExampleText \o <<",">>,
          Chars("Lisinopril 10mg") \o <<"\n", "\n">> \o Chars("Metformin 500mg")}

InitRag ==
  /\ now = 0
  /\ dbMode = "up"
  /\ driver = "null"
  /\ neo4jInitialized = FALSE
  /\ initCalls = 0
  /\ heap = <<>>
  /\ resultsStore = <<>>
  /\ blockchainRecords = <<>>
  /\ mockGraphData = <<>>
  /\ graph = <<>>
  /\ jobs = <<>>
  /\ proc = [p \in Procs |-> Idle]
  /\ ret = NoRet
  /\ refreshed = {}
  /\ started = 0
  /\ submittedFor = {}
  /\ overlap = FALSE
  /\ newest = [seq |-> -1, ref |-> 0]
  /\ graphNodes = {}
  /\ payload = <<>>
  /\ hashLog = <<>>
  /\ input \in RagPrescriptions

\* analyzePrescriptionWithRAG up to the end of Promise.all: `medications`
\* (hist) and `medicineData` (val).
GatherMedicineData ==
  /\ ret.op = "none"
  /\ LET medications == Candidates(input)
     IN ret' = Spread(NoRet,
                      [op |-> "gather", hist |-> medications,
                       val |-> [i \in DOMAIN medications |->
                                  SearchVectorDatabase(medications[i])]])
  /\ UNCHANGED <<now, dbMode, driver, neo4jInitialized, initCalls, heap,
                 resultsStore, blockchainRecords, mockGraphData, graph, jobs,
                 proc, refreshed, started, submittedFor, overlap, newest,
                 graphNodes, payload, hashLog, input>>

NextRag == GatherMedicineData

SpecRag == InitRag /\ [][NextRag]_vars

\* ================================================================= claims
Unreachable == dbMode # "up"

LedgerHashOf(id) == Get(blockchainRecords, id).hash

\* C1: while the graph database is unreachable every submit with a valid AI
\* answer returns without error and its result is in resultsStore and in the
\* ledger.
C1_SubmitSucceedsWhenUnreachable ==
  (Unreachable /\ ret.op = "submit" /\ ret.stage # "ai")
    => /\ ret.ok
       /\ Has(resultsStore, ret.id)
       /\ Has(blockchainRecords, ret.id)

\* C2: once a connection attempt has failed (initNeo4j returned null), the
\* graph adapter operations take the fallback path, i.e. their test
\* `!driver` succeeds, and none of them is on the session path.
C2_FallbackAfterFailedInit ==
  (Unreachable /\ neo4jInitialized)
    => /\ driver = "null"
       /\ jobs = <<>>
       /\ \A p \in Procs : proc[p].pc \notin {"histq", "query"}

\* C3: while the graph database is unreachable the patient history is empty,
\* both the one fetched inside submit and the one the history operation
\* returns.
C3_HistoryEmptyWhenUnreachable ==
  Unreachable
    => /\ ret.op = "history" => ret.val = <<>>
       /\ ret.op = "submit" => (ret.stage # "history" /\ ret.hist = <<>>)
       /\ \A p \in Procs : InSubmit(p) => proc[p].hist = <<>>

\* C4: the history of a patient holds only results submitted for a patient
\* of that name.
C4_HistoryOnlyOwnPatient ==
  ret.op = "history"
    => \A i \in DOMAIN ret.val : <<ret.val[i].id, ret.form.name>> \in submittedFor

\* C5: in the state a successful submit returns in (no other submit having
\* been in progress meanwhile), latest returns a record whose
\* originalPrescription is the prescription text of that submit.
C5_SubmitThenLatest ==
  (ret.op = "submit" /\ ret.ok /\ ret.clean)
    => LatestResult.originalPrescription = ret.form.prescription

\* C5 witness: the second of two submits has returned, its AI answer carried
\* the keys id and originalPrescription.
C5_Witness ==
  /\ ret.op = "submit" /\ ret.ok /\ ret.clean
  /\ ret.form.prescription = "Metformin 500mg"
  /\ Len(resultsStore) = 2

\* C6: in a sequence of submits, each begun after the one before it has
\* returned, no two results get the same id, so no submit overwrites an
\* earlier result: every result ever assembled is still in resultsStore, and
\* when a submit returns successfully resultsStore and the ledger hold one
\* entry per successful submit.
C6_IdsUnique ==
  ~overlap
    => /\ \A i, j \in DOMAIN heap : i # j => heap[i].id # heap[j].id
       /\ Len(resultsStore) = Len(heap)
       /\ (ret.op = "submit" /\ ret.ok)
            => /\ Len(blockchainRecords) = Len(heap)
               /\ \A i \in DOMAIN heap : Has(blockchainRecords, heap[i].id)

\* C6 witness: the second of two submits made one after the other has
\* returned, both having drawn the same random part.
C6_Witness ==
  /\ ~overlap /\ ret.op = "submit" /\ ret.ok
  /\ Len(heap) = 2 /\ heap[1].id[3] = heap[2].id[3]
  /\ Len(resultsStore) = 2 /\ Len(blockchainRecords) = 2

\* C7: findByFingerprint with the fingerprint a ledger record held at the
\* call returns the result with that record's id, not null.
C7_FingerprintRoundTrip ==
  (ret.op = "find" /\ ret.tag \in {"stored", "refreshed"})
    => (Len(ret.val) = 1 /\ ret.val[1].id = ret.id)

\* C8: after a successful refresh the graph adapter's copy of the
\* prescription carries the recomputed fingerprint: on the fallback path the
\* entry is there when the refresh returns, and with the database up and no
\* write outstanding findByFingerprint with the new fingerprint finds it.
C8_RefreshedCopyFound ==
  /\ (ret.op = "refresh" /\ ret.ok /\ driver = "null")
       => LET hit == MockByHash(LedgerHashOf(ret.id))
          IN Len(hit) = 1 /\ hit[1].id = ret.id
  /\ (ret.op = "find" /\ ret.tag = "refreshed" /\ dbMode = "up" /\ jobs = <<>>)
       => (Len(ret.val) = 1 /\ ret.val[1].id = ret.id)

\* C9: refresh of an id that is in resultsStore when it is called succeeds
\* and leaves the result Updated with lastUpdated set to the time of the
\* refresh; it fails only for an id that is not in resultsStore.
C9_RefreshSucceedsForStoredResult ==
  ret.op = "refresh"
    => /\ ret.ok <=> ret.tag # "unknown"
       /\ ret.ok => LET r == heap[Get(resultsStore, ret.id)]
                    IN r.blockchainStatus = "Updated" /\ r.lastUpdated = now

\* C10 as stated: refresh of an unknown id fails with the not-found error
\* itself, which no other failure of refresh carries.
C10_UnknownIdRecordNotFound ==
  (ret.op = "refresh" /\ ret.tag = "unknown")
    => (~ret.ok /\ ret.err = "Record not found")

\* C10 amended: refresh of an unknown id fails with the error every failure
\* of refresh is wrapped into, and changes none of the stores.
C10_UnknownIdFailsGeneric ==
  [][(ret'.op = "refresh" /\ ret'.tag = "unknown")
       => /\ ~ret'.ok
          /\ ret'.err = "Failed to update blockchain record"
          /\ UNCHANGED <<heap, resultsStore, blockchainRecords, mockGraphData,
                         graph, jobs>>]_vars

\* C10 witness: a refresh of an unknown id has failed with results stored.
C10_Witness ==
  /\ ret.op = "refresh" /\ ret.tag = "unknown" /\ ~ret.ok
  /\ Len(resultsStore) > 0 /\ Len(blockchainRecords) > 0

\* C11: findByFingerprint with a fingerprint that no ledger record holds
\* returns null to its caller without raising an error and without any
\* failure underneath (the graph adapter is not asked), whatever the stores
\* hold and whether the graph database is up or not.
C11_UnknownFingerprintNull ==
  (ret.op = "find" /\ ret.tag = "never")
    => (ret.ok /\ ret.val = <<>> /\ ret.err = "")

\* C11 witness: the lookup of a fingerprint never stored has returned while
\* the ledger holds a record and the failed connection attempt left a driver.
C11_Witness ==
  /\ ret.op = "find" /\ ret.tag = "never" /\ ret.hash = NeverHash
  /\ dbMode = "down" /\ driver # "null" /\ Len(blockchainRecords) > 0

\* C12: no result in the stores comes from an answer with a status or a
\* severity outside the three values or with a field missing; and the step
\* in which such an answer (or one JSON.parse throws on) arrives ends the
\* submit: analyze fails with the invalid-response error, the submit fails,
\* the request is not waiting for a second answer, and resultsStore, the
\* ledger, the fallback map, the graph and the pending graph writes are as
\* they were.
C12_InvalidAnswerFailsSubmit ==
  [][/\ \A i \in DOMAIN heap' :
          /\ SchemaKeys \subseteq DOMAIN heap'[i]
          /\ heap'[i].status \in {"valid", "warning", "invalid"}
          /\ \A k \in DOMAIN heap'[i].issues :
                heap'[i].issues[k] \in {"low", "medium", "high"}
     /\ (ret'.op = "submit" /\ ret'.stage = "ai")
          => /\ ~ret'.ok
             /\ ret'.cause = "Invalid AI response format"
             /\ ret'.err = "Failed to analyze prescription"
             /\ \E p \in Procs : /\ proc[p].op = "submit" /\ proc[p].pc = "ai"
                                  /\ proc[p].id = ret'.id
                                  /\ proc'[p] = Idle
             /\ UNCHANGED <<heap, resultsStore, blockchainRecords,
                            mockGraphData, graph, jobs>>]_vars

\* C12 witness: a submit has failed on an answer with a severity outside the
\* enum after an earlier submit had stored its result.
C12_Witness ==
  /\ ret.op = "submit" /\ ret.stage = "ai" /\ ~ret.ok
  /\ ret.val = <<[status |-> "warning", issues |-> <<"critical">>,
                  suggestions |-> <<"s">>, dataSources |-> DataSources,
                  imageAnalysis |-> "null", historyReference |-> "null"]>>
  /\ Len(resultsStore) = 1 /\ ~Has(resultsStore, ret.id)

\* C13: latest returns the canned example exactly when resultsStore is
\* empty; otherwise it returns the stored result whose submit was called
\* last, in whatever order overlapping submits got their answers and
\* returned (stated for the states in which no id was generated twice).
C13_LatestIsMostRecentlySubmitted ==
  (ret.op = "latest" /\ Len(resultsStore) = Len(heap))
    => /\ (ret.val[1].id = <<"rx-mock-123456">>) <=> (Len(resultsStore) = 0)
       /\ Len(resultsStore) > 0 => ret.val[1] = heap[newest.ref]

\* C14: the history operation and findByFingerprint never fail towards
\* their caller: when the lookup of the graph adapter is rejected, history
\* returns the empty list and findByFingerprint returns null.
C14_LookupFailuresAbsorbed ==
  ret.op \in {"history", "find"}
    => /\ ret.ok
       /\ ret.err \in {"", "caught"}
       /\ ret.err = "caught" => ret.val = <<>>

\* C14 witness: the history query was rejected (server unreachable, driver
\* left by the failed connection attempt) after a submit had stored a result.
C14_Witness ==
  /\ ret.op = "history" /\ ret.err = "caught" /\ ret.val = <<>>
  /\ dbMode = "down" /\ Len(blockchainRecords) > 0

\* C15: storeOnBlockchain(result) succeeds and resolves to result.id; in the
\* state it returns in, the ledger holds under that id the record
\* {id, timestamp and status of the result, its fingerprint, the number of
\* its issues and suggestions, 0 for an absent list}, whether or not the id
\* was there before; getBlockchainRecord(id) resolves to the record the
\* ledger holds under id.
C15_StoreThenGet ==
  /\ ret.op = "store"
       => LET data == ret.val[1]
              rec == Get(blockchainRecords, data.id)
          IN /\ ret.ok /\ ret.id = data.id
             /\ Has(blockchainRecords, data.id)
             /\ rec.id = data.id
             /\ rec.timestamp = data.timestamp
             /\ rec.status = data.status
             /\ rec.hash = generateHash(data)
             /\ rec.data.issuesCount =
                  (IF "issues" \in DOMAIN data THEN Len(data.issues) ELSE 0)
             /\ rec.data.suggestionsCount =
                  (IF "suggestions" \in DOMAIN data THEN Len(data.suggestions) ELSE 0)
             /\ Cardinality({i \in DOMAIN blockchainRecords :
                               blockchainRecords[i].k = data.id}) = 1
  /\ (ret.op = "get" /\ ret.ok)
       => (ret.val = <<Get(blockchainRecords, ret.id)>> /\ ret.val[1].id = ret.id)

\* C15 witness: a store under an id the ledger already held has returned,
\* the result stored having one issue and two suggestions.
C15_Witness ==
  /\ ret.op = "store" /\ ret.ok /\ ret.tag = "overwrote"
  /\ ret.val[1].status = "warning"
  /\ Get(blockchainRecords, ret.id).data.suggestionsCount = 2

\* C16: getBlockchainRecord and updateOnBlockchain fail with the not-found
\* error exactly when the ledger has no record under the id; a failed update
\* changes neither the ledger nor the graph adapter's data and starts no
\* graph write; a successful update leaves the keys of the ledger and every
\* other record as they were, keeps the record's id and sets its
\* fingerprint, status and counts from the result given.
C16_GetUpdateNotFound ==
  [][/\ ret'.op = "get"
          => /\ ret'.ok <=> Has(blockchainRecords, ret'.id)
             /\ ~ret'.ok => ret'.err = "Record not found on blockchain"
             /\ UNCHANGED blockchainRecords
     /\ ret'.op = "update"
          => LET id == ret'.id
                 data == ret'.val[1]
             IN IF ~Has(blockchainRecords, id)
                THEN /\ ~ret'.ok
                     /\ ret'.err = "Record not found on blockchain"
                     /\ UNCHANGED <<blockchainRecords, mockGraphData, graph, jobs>>
                ELSE /\ ret'.ok
                     /\ Len(blockchainRecords') = Len(blockchainRecords)
                     /\ \A i \in DOMAIN blockchainRecords :
                          /\ blockchainRecords'[i].k = blockchainRecords[i].k
                          /\ blockchainRecords[i].k # id
                               => blockchainRecords'[i] = blockchainRecords[i]
                     /\ LET old == Get(blockchainRecords, id)
                            rec == Get(blockchainRecords', id)
                        IN /\ rec.id = old.id
                           /\ rec.hash = generateHash(data)
                           /\ rec.status = data.status
                           /\ rec.data.status = data.status
                           /\ rec.data.issuesCount =
                                (IF "issues" \in DOMAIN data
                                 THEN Len(data.issues) ELSE 0)
                           /\ rec.data.suggestionsCount =
                                (IF "suggestions" \in DOMAIN data
                                 THEN Len(data.suggestions) ELSE 0)]_vars

\* C16 witness: an update under an id the ledger does not hold has failed
\* while the ledger holds another record.
C16_Witness ==
  /\ ret.op = "update" /\ ~ret.ok
  /\ ret.err = "Record not found on blockchain"
  /\ Len(blockchainRecords) > 0 /\ ~Has(blockchainRecords, ret.id)

\* C18: in the list history returns, the prescriptions of the patient asked
\* for are ordered by creation timestamp, most recent first, on the
\* connected path and on the fallback path.
C18_HistoryMostRecentFirst ==
  ret.op = "history"
    => \A i, j \in DOMAIN ret.val :
         (/\ i < j
          /\ <<ret.val[i].id, ret.form.name>> \in submittedFor
          /\ <<ret.val[j].id, ret.form.name>> \in submittedFor)
           => ret.val[i].timestamp >= ret.val[j].timestamp


\* C17: on the connected path one call of storePrescriptionInGraph is all or
\* nothing.  A call that returns an error (a write or the commit failed)
\* leaves the Prescription nodes and the Patient and Medication nodes of the
\* database as they were before the call's return and raises the error; a
\* call that returns normally adds, in that one step, its Prescription node
\* with every medication, issue and suggestion relation and its Patient and
\* Medication nodes; no other step of a call changes the database.
C17_StoreAllOrNothing ==
  [][/\ \A p \in Procs :
          (proc[p].pc = "tx" /\ proc'[p].pc = "idle")
            => LET data == heap[proc[p].ref]
                   rx == graph'[Len(graph')]
               IN IF ret'.ok
                  THEN /\ Len(graph') = Len(graph) + 1
                       /\ SubSeq(graph', 1, Len(graph)) = graph
                       /\ rx.id = data.id
                       /\ rx.blockchainHash = proc[p].hash
                       /\ rx.patient.name = proc[p].form.name
                       /\ rx.medications = proc[p].meds
                       /\ rx.issues = FieldOrEmpty(data, "issues")
                       /\ rx.suggestions = FieldOrEmpty(data, "suggestions")
                       /\ graphNodes' =
                            graphNodes
                              \cup {PatientNode(proc[p].form)}
                              \cup {MedicationNode(proc[p].meds[i]) :
                                      i \in DOMAIN proc[p].meds}
                  ELSE /\ graph' = graph
                       /\ graphNodes' = graphNodes
                       /\ ret'.err # ""
     /\ (\A p \in Procs : ~(proc[p].pc = "tx" /\ proc'[p].pc = "idle"))
          => UNCHANGED <<graph, graphNodes>>
    ]_vars

\* A call fails after at least three of its writes ran (patient, prescription
\* and a medication, issue or suggestion) while another call's prescription
\* is in the database.
C17_Witness ==
  /\ ret.op = "graphStore"
  /\ ~ret.ok
  /\ Len(ret.hist) >= 3
  /\ Len(graph) = 1
  /\ graph[1].id # ret.id

\* The name an entry of the split text stands for: the entry without the
\* whitespace around it, cut after its leading run of characters of
\* `runChars` (and after the last non-blank of that run); an entry that does
\* not begin with a letter is kept whole when `whole` holds and gives
\* nothing otherwise.
NameExpected(e, runChars, whole) ==
  LET nonBlank == {i \in DOMAIN e : e[i] \notin Whitespace}
  IN IF nonBlank = {} THEN <<>>
     ELSE LET first == CHOOSE i \in nonBlank : \A j \in nonBlank : i <= j
              last == CHOOSE i \in nonBlank : \A j \in nonBlank : i >= j
              stop == CHOOSE k \in (first - 1)..Len(e) :
                        /\ \A i \in first..k : e[i] \in runChars
                        /\ k = Len(e) \/ e[k + 1] \notin runChars
              kept == {i \in first..stop : e[i] \notin Whitespace}
          IN IF e[first] \in Letters
             THEN SubSeq(e, first, CHOOSE i \in kept : \A j \in kept : i >= j)
             ELSE IF whole THEN SubSeq(e, first, last) ELSE <<>>

\* `meds` lists, in the order of the text, the names of the entries between
\* consecutive commas and line breaks of `text` that give a name.
NamesAre(meds, text, runChars, whole) ==
  LET cuts == {0, Len(text) + 1} \cup {i \in DOMAIN text : text[i] \in Separators}
      entries == {c \in cuts \X cuts :
                    /\ c[1] < c[2]
                    /\ \A k \in cuts : ~(c[1] < k /\ k < c[2])}
      nameOf(c) == NameExpected(SubSeq(text, c[1] + 1, c[2] - 1), runChars, whole)
      named == {c \in entries : nameOf(c) # <<>>}
      rank(c) == Cardinality({d \in named : d[1] <= c[1]})
  IN /\ Len(meds) = Cardinality(named)
     /\ \A c \in named : meds[rank(c)] = nameOf(c)

LisinoprilMetformin ==
  << SubSeq(Chars("Lisinopril 10mg"), 1, 10),
     SubSeq(Chars("Metformin 500mg"), 1, 9) >>

\* C20 as stated: the medication names of a prescription text are, entry by
\* entry (split on commas and line breaks, trimmed), the leading run of
\* letters of the entry; entries without such a run are dropped; the text
\* "Lisinopril 10mg, Metformin 500mg" gives Lisinopril and Metformin.
C20_NamesAreLeadingLetters ==
  \A p \in Procs :
    (proc[p].op = "graphStore" /\ proc[p].pc = "tx")
      => LET text == heap[proc[p].ref].originalPrescription
         IN /\ NamesAre(proc[p].meds, text, Letters, FALSE)
            /\ text = ExampleText => proc[p].meds = LisinoprilMetformin

\* C20 amended: the name of an entry is its leading run of letters and
\* whitespace, trimmed (several words before the dose are all kept), an
\* entry that does not start with a letter is kept whole (trimmed), blank
\* entries are dropped; the text "Lisinopril 10mg, Metformin 500mg" gives
\* Lisinopril and Metformin.
C20_NamesAreLeadingWords ==
  \A p \in Procs :
    (proc[p].op = "graphStore" /\ proc[p].pc = "tx")
      => LET text == heap[proc[p].ref].originalPrescription
         IN /\ NamesAre(proc[p].meds, text, Letters \cup Whitespace, TRUE)
            /\ text = ExampleText => proc[p].meds = LisinoprilMetformin

\* A call extracted the names of a text whose entry has two words.
C20_Witness ==
  \E p \in Procs :
    /\ proc[p].op = "graphStore" /\ proc[p].pc = "tx"
    /\ heap[proc[p].ref].originalPrescription = <<"L", " ", "m">>
    /\ proc[p].meds = << <<"L", " ", "m">> >>

\* C19: the outcome of the post-processing (strip the fence markers, parse,
\* validate) of an answer whose payload stands between code-fence lines,
\* with the json tag or without it, is the outcome for the payload alone:
\* the same parsed analysis or the same error, in the current and in the
\* earlier analyzePrescriptionWithRAG.
C19_FenceInsensitive ==
  /\ ret.op = "analyze"
       => /\ ret.ok = AnalyzeOutcome(payload).ok
          /\ ret.ok => ret.val = AnalyzeOutcome(payload).val
          /\ ~ret.ok => ret.cause = AnalyzeOutcome(payload).cause
  /\ ret.op = "analyzeOlder"
       => /\ ret.ok = AnalyzeOutcomeOlder(payload).ok
          /\ ret.ok => ret.val = AnalyzeOutcomeOlder(payload).val
          /\ ~ret.ok => ret.cause = AnalyzeOutcomeOlder(payload).cause

\* A valid document between fence lines with the json tag was parsed.
C19_Witness ==
  /\ ret.op = "analyze"
  /\ ret.tag = "json"
  /\ ret.ok
  /\ payload = <<"{valid}">>
  /\ ret.val[1].status = "valid"

RefStep(b, c) ==
  LET t0 == b[1] * 31 + c
      t1 == b[2] * 31 + (t0 \div 256)
      t2 == b[3] * 31 + (t1 \div 256)
      t3 == b[4] * 31 + (t2 \div 256)
  IN <<t0 % 256, t1 % 256, t2 % 256, t3 % 256>>

RECURSIVE RefFold(_, _)
RefFold(b, s) == IF s = <<>> THEN b ELSE RefFold(RefStep(b, Head(s)), Tail(s))

\* The absolute value of the signed 32-bit number held in four bytes.
RefAbs(b) ==
  IF b[4] < 128 THEN b
  ELSE LET n0 == 256 - b[1]
           n1 == 255 - b[2] + (n0 \div 256)
           n2 == 255 - b[3] + (n1 \div 256)
           n3 == 255 - b[4] + (n2 \div 256)
       IN <<n0 % 256, n1 % 256, n2 % 256, n3 % 256>>

\* The reference checksum: eight hexadecimal digits, most significant first.
RefChecksum(s) ==
  LET b == RefAbs(RefFold(<<0, 0, 0, 0>>, s))
  IN <<b[4] \div 16, b[4] % 16, b[3] \div 16, b[3] % 16,
       b[2] \div 16, b[2] % 16, b[1] \div 16, b[1] % 16>>

\* C22: for every string generateHash returns the reference checksum (fold
\* acc * 31 + charCode truncated to a signed 32-bit integer from 0, absolute
\* value, hexadecimal padded to 8 digits): exactly 8 hexadecimal digits,
\* 80000000 when the accumulator ends at -2^31.
C22_HashIsReferenceChecksum ==
  ret.op = "hash"
    => /\ ret.hash = RefChecksum(input)
       /\ Len(ret.hash) = 8
       /\ \A i \in DOMAIN ret.hash : ret.hash[i] \in 0..15
       /\ input = MinIntText => ret.hash = <<8, 0, 0, 0, 0, 0, 0, 0>>

\* The string whose accumulator ends at -2^31 was hashed.
C22_Witness ==
  /\ ret.op = "hash"
  /\ input = MinIntText
  /\ ret.hash = <<8, 0, 0, 0, 0, 0, 0, 0>>

\* C23: an answer with a valid status, issues, suggestions and dataSources
\* is accepted by analyzePrescriptionWithRAG whether imageAnalysis and
\* historyReference are strings, null or absent.
C23_ImageFieldsOptional ==
  (/\ ret.op = "analyze"
   /\ payload \in {<<"{valid}">>, <<"{image: text}">>, <<"{no image}">>})
    => ret.ok

\* C24: after every step, a result of the results store whose
\* blockchainStatus is Recorded or Updated has a ledger record with its id,
\* and a result enters the results store as Pending.
C24_RecordedHasLedgerRecord ==
  [][/\ \A i \in DOMAIN resultsStore' :
          heap'[resultsStore'[i].v].blockchainStatus \in {"Recorded", "Updated"}
            => Has(blockchainRecords', resultsStore'[i].k)
     /\ \A i \in DOMAIN resultsStore' :
          (resultsStore'[i].v \notin DOMAIN heap)
            => heap'[resultsStore'[i].v].blockchainStatus = "Pending"]_vars

\* One result is Recorded with its ledger record while another is still
\* Pending and has none.
C24_Witness ==
  \E i, j \in DOMAIN resultsStore :
    /\ heap[resultsStore[i].v].blockchainStatus = "Recorded"
    /\ Has(blockchainRecords, resultsStore[i].k)
    /\ heap[resultsStore[j].v].blockchainStatus = "Pending"
    /\ ~Has(blockchainRecords, resultsStore[j].k)

FrozenFields ==
  {"id", "originalPrescription", "status", "issues", "suggestions", "timestamp"}

\* C25: no operation changes the id, originalPrescription, status, issues,
\* suggestions or timestamp of a result once it is created; a step that
\* changes a result changes its blockchainStatus and lastUpdated only, and a
\* refresh changes no result but the one stored under its id.
C25_ResultFrame ==
  [][\A k \in DOMAIN heap :
       /\ DOMAIN heap'[k] = DOMAIN heap[k]
       /\ \A f \in DOMAIN heap[k] \ {"blockchainStatus", "lastUpdated"} :
            heap'[k][f] = heap[k][f]
       /\ \A f \in FrozenFields : heap'[k][f] = heap[k][f]
       /\ (ret'.op = "refresh" /\ heap'[k] # heap[k])
            => /\ Has(resultsStore, ret'.id)
               /\ k = Get(resultsStore, ret'.id)]_vars

\* A refresh completed for one of two stored results.
C25_Witness ==
  /\ ret.op = "refresh" /\ ret.ok
  /\ Len(resultsStore) = 2
  /\ heap[Get(resultsStore, ret.id)].blockchainStatus = "Updated"
  /\ \E i \in DOMAIN resultsStore :
       heap[resultsStore[i].v].blockchainStatus # "Updated"

StatusRank(st) ==
  CASE st = "Pending" -> 0 [] st = "Recorded" -> 1 [] st = "Updated" -> 2
    [] OTHER -> -1

\* C26: after every step blockchainStatus of a stored result is Pending,
\* Recorded or Updated and, as long as no two submits generated the same id, only moves
\* forward: a result never goes from Updated back to Recorded or Pending,
\* nor from Recorded back to Pending.
C26_StatusOnlyForward ==
  [][/\ \A k \in DOMAIN heap' : StatusRank(heap'[k].blockchainStatus) >= 0
     /\ Len(resultsStore') = Len(heap')
          => \A k \in DOMAIN heap :
               StatusRank(heap'[k].blockchainStatus)
                 >= StatusRank(heap[k].blockchainStatus)]_vars

\* A refresh that was called while the submit of its id was in progress (the
\* result was Pending) completed after the submit.
C26_Witness ==
  /\ ret.op = "refresh" /\ ret.ok
  /\ ret.tag = "Pending"
  /\ Len(resultsStore) = Len(heap)
  /\ heap[Get(resultsStore, ret.id)].blockchainStatus = "Updated"

\* C27: initNeo4j is invoked at most once, however many ledger operations
\* are started before the first initialization has finished.
C27_InitializedOnce == initCalls <= 1

\* C28: as long as the submits generated distinct ids, every result created
\* is in the results store under its id (none was removed or overwritten),
\* every id of the ledger is in the results store, and when no submit is in
\* progress the results store and the ledger hold the same ids, each result
\* being Recorded or Updated.
C28_SubmitsKeepEachOthersRecords ==
  (\A k, l \in DOMAIN heap : heap[k].id = heap[l].id => k = l)
    => /\ \A k \in DOMAIN heap :
            Has(resultsStore, heap[k].id) /\ Get(resultsStore, heap[k].id) = k
       /\ Keys(blockchainRecords) \subseteq Keys(resultsStore)
       /\ (\A p \in Procs : ~InSubmit(p))
            => /\ Keys(blockchainRecords) = Keys(resultsStore)
               /\ \A k \in DOMAIN heap :
                    heap[k].blockchainStatus \in {"Recorded", "Updated"}

\* Two submits that overlapped have both completed.
C28_Witness ==
  /\ overlap
  /\ ret.op = "submit" /\ ret.ok
  /\ \A p \in Procs : ~InSubmit(p)
  /\ Len(heap) = 2
  /\ heap[1].id # heap[2].id
  /\ Len(blockchainRecords) = 2

\* C29: as long as the submits generated distinct ids, every ledger record
\* carries the status, the number of issues and the number of suggestions
\* of the result the results store holds under its id, after any submits
\* and refreshes.
C29_LedgerMirrorsResult ==
  (\A k, l \in DOMAIN heap : heap[k].id = heap[l].id => k = l)
    => \A i \in DOMAIN blockchainRecords :
         /\ Has(resultsStore, blockchainRecords[i].k)
         /\ LET rec == blockchainRecords[i].v
                r == heap[Get(resultsStore, blockchainRecords[i].k)]
            IN /\ rec.id = r.id
               /\ rec.status = r.status
               /\ rec.data.status = r.status
               /\ rec.data.issuesCount = Len(r.issues)
               /\ rec.data.suggestionsCount = Len(r.suggestions)

\* The ledger record of a result with an issue and two suggestions was
\* rewritten by a refresh.
C29_Witness ==
  \E i \in DOMAIN blockchainRecords :
    /\ blockchainRecords[i].k \in refreshed
    /\ blockchainRecords[i].v.data.issuesCount = 1
    /\ blockchainRecords[i].v.data.suggestionsCount = 2

\* C30: the lookup returns an entry only for a candidate that, in lower
\* case, equals a table key, contains one or is contained in one, and null
\* otherwise; a candidate that is empty after trimming (a trailing comma, a
\* blank line) yields null and adds no medicine data.
C30_LookupOnlyForMatchingNames ==
  ret.op = "gather"
    => \A i \in DOMAIN ret.val :
         LET name == Trim(ToLowerCase(ret.hist[i]))
             matches == \E n \in DOMAIN MedicineKeys :
                          \/ Includes(MedicineKeys[n], name)
                          \/ Includes(name, MedicineKeys[n])
         IN /\ ret.val[i] # <<>> <=> (name # <<>> /\ matches)
            /\ name = <<>> => ret.val[i] = <<>>
====
